---- MODULE Spec2Model ----
(***************************************************************************)
(* Bond catalog loader, scoring engine and ranker of the AI financial      *)
(* advisor (backend/bond_operations.py).                                   *)
(*                                                                         *)
(* Texts are sequences of one-character strings, so that split(), lower(), *)
(* startswith(), the `in` test and the coupon regular expression are       *)
(* computed character by character.  Numbers that Python holds as floats   *)
(* are exact rationals <<numerator, denominator>> in lowest terms.         *)
(***************************************************************************)
EXTENDS Integers, Sequences, FiniteSets, TLC

(***************************************************************************)
(* Bounds of the model                                                     *)
(***************************************************************************)
MaxCatalog == 3
TicksPerDay == 2

(***************************************************************************)
(* Python values                                                           *)
(***************************************************************************)
\* None: a one-element sequence whose element is not a single character
None == <<"None">>

Ok(v) == [ok |-> TRUE, val |-> v, err |-> ""]
Raise(e) == [ok |-> FALSE, val |-> <<>>, err |-> e]

(***************************************************************************)
(* Float arithmetic, as exact rationals                                    *)
(***************************************************************************)
Abs(n) == IF n < 0 THEN -n ELSE n

RECURSIVE Gcd(_, _)
Gcd(a, b) == IF b = 0 THEN a ELSE Gcd(b, a % b)

Rat(n, d) ==
    LET s == IF d < 0 THEN -1 ELSE 1
        g == Gcd(Abs(n), Abs(d))
    IN  <<(s * n) \div g, (s * d) \div g>>

RInt(n) == <<n, 1>>
RAdd(a, b) == Rat(a[1] * b[2] + b[1] * a[2], a[2] * b[2])
RSub(a, b) == Rat(a[1] * b[2] - b[1] * a[2], a[2] * b[2])
RMul(a, b) == Rat(a[1] * b[1], a[2] * b[2])
RDiv(a, b) == Rat(a[1] * b[2], a[2] * b[1])
RAbs(a) == <<Abs(a[1]), a[2]>>
RLess(a, b) == a[1] * b[2] < b[1] * a[2]
RLeq(a, b) == a[1] * b[2] <= b[1] * a[2]
\* max(a, b) of Python: the first argument unless the second is greater
RMax(a, b) == IF RLess(a, b) THEN b ELSE a

(***************************************************************************)
(* str methods                                                             *)
(***************************************************************************)
UpperCase == <<"A","B","C","D","E","F","G","H","I","J","K","L","M",
               "N","O","P","Q","R","S","T","U","V","W","X","Y","Z">>
LowerCase == <<"a","b","c","d","e","f","g","h","i","j","k","l","m",
               "n","o","p","q","r","s","t","u","v","w","x","y","z">>
Digits == <<"0","1","2","3","4","5","6","7","8","9">>

IsDigit(c) == \E i \in 1..Len(Digits) : Digits[i] = c
DigitVal(c) == (CHOOSE i \in 1..Len(Digits) : Digits[i] = c) - 1
IsSpace(c) == c \in {" ", "\t", "\n"}
IsStr(v) == v # None

\* str.lower()
LowerChar(c) ==
    IF \E i \in 1..Len(UpperCase) : UpperCase[i] = c
    THEN LowerCase[CHOOSE i \in 1..Len(UpperCase) : UpperCase[i] = c]
    ELSE c
lower(s) == [i \in 1..Len(s) |-> LowerChar(s[i])]

\* str.startswith(prefix)
startswith(s, prefix) ==
    /\ Len(prefix) <= Len(s)
    /\ SubSeq(s, 1, Len(prefix)) = prefix

\* needle in haystack: scan the start positions from the left
RECURSIVE FindFrom(_, _, _)
FindFrom(needle, hay, i) ==
    IF i + Len(needle) - 1 > Len(hay) THEN FALSE
    ELSE IF SubSeq(hay, i, i + Len(needle) - 1) = needle THEN TRUE
    ELSE FindFrom(needle, hay, i + 1)
contains(hay, needle) == FindFrom(needle, hay, 1)

\* str.split(): the maximal runs of non-whitespace characters
RECURSIVE SplitWs(_, _, _, _)
SplitWs(s, i, cur, acc) ==
    IF i > Len(s)
    THEN IF cur = <<>> THEN acc ELSE Append(acc, cur)
    ELSE IF IsSpace(s[i])
         THEN SplitWs(s, i + 1, <<>>, IF cur = <<>> THEN acc ELSE Append(acc, cur))
         ELSE SplitWs(s, i + 1, Append(cur, s[i]), acc)
split(s) == SplitWs(s, 1, <<>>, <<>>)

\* str.split(sep) for a one-character separator: empty fields are kept
RECURSIVE SplitSep(_, _, _, _, _)
SplitSep(s, sep, i, cur, acc) ==
    IF i > Len(s) THEN Append(acc, cur)
    ELSE IF s[i] = sep
         THEN SplitSep(s, sep, i + 1, <<>>, Append(acc, cur))
         ELSE SplitSep(s, sep, i + 1, Append(cur, s[i]), acc)
split_on(s, sep) == SplitSep(s, sep, 1, <<>>, <<>>)

AllDigits(s) == Len(s) > 0 /\ \A i \in 1..Len(s) : IsDigit(s[i])

RECURSIVE DigitsValue(_, _, _)
DigitsValue(s, i, acc) ==
    IF i > Len(s) THEN acc ELSE DigitsValue(s, i + 1, 10 * acc + DigitVal(s[i]))

RECURSIVE Pow10(_)
Pow10(k) == IF k = 0 THEN 1 ELSE 10 * Pow10(k - 1)

\* int(text)
int(s) == IF AllDigits(s) THEN Ok(DigitsValue(s, 1, 0)) ELSE Raise("ValueError")

(***************************************************************************)
(* datetime                                                                *)
(***************************************************************************)
IsLeap(y) == y % 4 = 0 /\ (y % 100 # 0 \/ y % 400 = 0)
DaysInMonth(y, m) ==
    IF m = 2 THEN (IF IsLeap(y) THEN 29 ELSE 28)
    ELSE IF m \in {4, 6, 9, 11} THEN 30 ELSE 31

RECURSIVE DaysBeforeMonth(_, _)
DaysBeforeMonth(y, m) ==
    IF m = 1 THEN 0 ELSE DaysBeforeMonth(y, m - 1) + DaysInMonth(y, m - 1)

DaysBeforeYear(y) ==
    365 * (y - 1) + ((y - 1) \div 4) - ((y - 1) \div 100) + ((y - 1) \div 400)

\* date.toordinal()
ToOrdinal(y, m, d) == DaysBeforeYear(y) + DaysBeforeMonth(y, m) + d

\* a datetime is a number of ticks: whole days and the time of day
DateTime(y, m, d, tick) == ToOrdinal(y, m, d) * TicksPerDay + tick
timedelta(days) == days * TicksPerDay

\* datetime.strptime(text, "%d-%m-%Y"): midnight of the day, or ValueError
strptime_dmy(s) ==
    LET f == split_on(s, "-") IN
    IF Len(f) # 3 THEN Raise("ValueError")
    ELSE IF ~(AllDigits(f[1]) /\ Len(f[1]) <= 2) THEN Raise("ValueError")
    ELSE IF ~(AllDigits(f[2]) /\ Len(f[2]) <= 2) THEN Raise("ValueError")
    ELSE IF ~(AllDigits(f[3]) /\ Len(f[3]) = 4) THEN Raise("ValueError")
    ELSE LET d == DigitsValue(f[1], 1, 0)
             m == DigitsValue(f[2], 1, 0)
             y == DigitsValue(f[3], 1, 0)
         IN  IF m < 1 \/ m > 12 \/ d < 1 \/ y < 1 THEN Raise("ValueError")
             ELSE IF d > DaysInMonth(y, m) THEN Raise("ValueError")
             ELSE Ok(DateTime(y, m, d, 0))

(***************************************************************************)
(* Catalog loader                                                          *)
(***************************************************************************)
ActiveMarginDays == 380

selected_fields ==
    {"COMPANY", "id", "ISIN", "NAME_OF_THE_INSTRUMENT", "DESCRIPTION_IN_NSDL",
     "ISSUE_PRICE", "FACEVALUE", "DATE_OF_ALLOTMENT", "REDEMPTION", "COUPON_RATE",
     "FREQUENCY_OF_THE_INTEREST_PAYMENT", "DEFAULTED_IN_REDEMPTION",
     "CREDIT_RATING_CREDIT_RATING_AGENCY"}

\* dict.get(field, None)
get(bond, field) == IF field \in DOMAIN bond THEN bond[field] ELSE None

\* {field: bond.get(field, None) for field in selected_fields}
Project(bond) == [field \in selected_fields |-> get(bond, field)]

\* datetime.now() as a datetime
Now(cd) == DateTime(cd.year, cd.month, cd.day, cd.tick)

\* the comparison written >= instead of >
IsActive_Mut(redemption, now) == redemption >= now + timedelta(ActiveMarginDays)

\* is this redemption datetime later than current_date + timedelta(days=380)
IsActive(redemption, now) == redemption > now + timedelta(ActiveMarginDays)

\* a record whose date does not parse is skipped instead of raising
RECURSIVE FilterActive_Mut(_, _, _, _)
FilterActive_Mut(details, now, i, acc) ==
    IF i > Len(details) THEN Ok(acc)
    ELSE LET bond == details[i] IN
         IF "REDEMPTION" \notin DOMAIN bond THEN Raise("KeyError")
         ELSE IF ~IsStr(bond["REDEMPTION"]) THEN Raise("TypeError")
         ELSE LET t == strptime_dmy(bond["REDEMPTION"]) IN
              FilterActive_Mut(details, now, i + 1,
                               IF t.ok /\ IsActive(t.val, now) THEN Append(acc, bond) ELSE acc)

\* [bond for bond in bond_details if strptime(bond['REDEMPTION']) > ...]:
\* the comprehension stops at the first record whose date does not parse
RECURSIVE FilterActive(_, _, _, _)
FilterActive(details, now, i, acc) ==
    IF i > Len(details) THEN Ok(acc)
    ELSE LET bond == details[i] IN
         IF "REDEMPTION" \notin DOMAIN bond THEN Raise("KeyError")
         ELSE IF ~IsStr(bond["REDEMPTION"]) THEN Raise("TypeError")
         ELSE LET t == strptime_dmy(bond["REDEMPTION"]) IN
              IF ~t.ok THEN t
              ELSE FilterActive(details, now, i + 1,
                                IF IsActive(t.val, now) THEN Append(acc, bond) ELSE acc)

\* the seen_isins test left out
IsNewIsin_Mut(isin, seen_isins) == TRUE

\* is the bond appended to unique_bonds
IsNewIsin(isin, seen_isins) == isin \notin seen_isins

\* unique_bonds.insert(0, bond) in place of unique_bonds.append(bond)
RECURSIVE Deduplicate_Mut(_, _, _, _)
Deduplicate_Mut(bonds, i, unique_bonds, seen_isins) ==
    IF i > Len(bonds) THEN unique_bonds
    ELSE LET isin == bonds[i]["ISIN"] IN
         IF IsNewIsin(isin, seen_isins)
         THEN Deduplicate_Mut(bonds, i + 1, <<bonds[i]>> \o unique_bonds, seen_isins \cup {isin})
         ELSE Deduplicate_Mut(bonds, i + 1, unique_bonds, seen_isins)

\* the loop over active_bonds with unique_bonds and seen_isins
RECURSIVE Deduplicate(_, _, _, _)
Deduplicate(bonds, i, unique_bonds, seen_isins) ==
    IF i > Len(bonds) THEN unique_bonds
    ELSE LET isin == bonds[i]["ISIN"] IN
         IF IsNewIsin(isin, seen_isins)
         THEN Deduplicate(bonds, i + 1, Append(unique_bonds, bonds[i]), seen_isins \cup {isin})
         ELSE Deduplicate(bonds, i + 1, unique_bonds, seen_isins)

load_and_prepare_bonds(details, cd) ==
    LET filtered == FilterActive(details, Now(cd), 1, <<>>) IN
    IF ~filtered.ok THEN filtered
    ELSE LET projected == [i \in 1..Len(filtered.val) |-> Project(filtered.val[i])]
         IN  Ok(Deduplicate(projected, 1, <<>>, {}))

(***************************************************************************)
(* Scoring engine                                                          *)
(***************************************************************************)
RatingPartial == Rat(1, 2)

\* startswith tested on the whole target rather than on its first character
rating_score_Mut(bond_rating, user_rating) ==
    IF bond_rating = user_rating THEN Ok(RInt(1))
    ELSE IF Len(user_rating) = 0 THEN Raise("IndexError")
    ELSE IF startswith(bond_rating, user_rating) THEN Ok(RatingPartial)
    ELSE Ok(RInt(0))

rating_score(bond_rating, user_rating) ==
    IF bond_rating = user_rating THEN Ok(RInt(1))
    ELSE IF Len(user_rating) = 0 THEN Raise("IndexError")
    ELSE IF startswith(bond_rating, <<user_rating[1]>>) THEN Ok(RatingPartial)
    ELSE Ok(RInt(0))

\* lower() left out on the bond's text
interest_score_Mut(bond_freq, user_freq) ==
    IF ~IsStr(bond_freq) THEN Raise("AttributeError")
    ELSE IF contains(bond_freq, lower(user_freq)) THEN Ok(RInt(1))
    ELSE Ok(RInt(0))

interest_score(bond_freq, user_freq) ==
    IF ~IsStr(bond_freq) THEN Raise("AttributeError")
    ELSE IF contains(lower(bond_freq), lower(user_freq)) THEN Ok(RInt(1))
    ELSE Ok(RInt(0))

\* the regular expression (\d+(\.\d+)?)% with its backtracking; a match is
\* reported as the index of the last character of group 1, 0 is no match
RECURSIVE DigitRun(_, _)
DigitRun(s, i) == IF i <= Len(s) /\ IsDigit(s[i]) THEN 1 + DigitRun(s, i + 1) ELSE 0

\* (\.\d+)? taken with k digits after the point at p, then %
RECURSIVE TryFraction(_, _, _)
TryFraction(s, p, k) ==
    IF k = 0 THEN 0
    ELSE IF p + k + 1 <= Len(s) /\ s[p + k + 1] = "%" THEN p + k
    ELSE TryFraction(s, p, k - 1)

\* what follows the integer digits, p being the position after them
AfterInteger(s, p) ==
    LET withFraction == IF p <= Len(s) /\ s[p] = "."
                        THEN TryFraction(s, p, DigitRun(s, p + 1)) ELSE 0
    IN  IF withFraction # 0 THEN withFraction
        ELSE IF p <= Len(s) /\ s[p] = "%" THEN p - 1 ELSE 0

\* \d+ taken with j digits from i, greedy first
RECURSIVE TryInteger(_, _, _)
TryInteger(s, i, j) ==
    IF j = 0 THEN 0
    ELSE LET e == AfterInteger(s, i + j) IN
         IF e # 0 THEN e ELSE TryInteger(s, i, j - 1)

MatchAt(s, i) == TryInteger(s, i, DigitRun(s, i))

\* re.match in place of re.search: only the given position is tried
re_search_Mut(s, i) ==
    IF i > Len(s) THEN <<0, 0>>
    ELSE IF MatchAt(s, i) # 0 THEN <<i, MatchAt(s, i)>> ELSE <<0, 0>>

\* re.search: the leftmost start position that matches; <<0, 0>> is None
RECURSIVE re_search(_, _)
re_search(s, i) ==
    IF i > Len(s) THEN <<0, 0>>
    ELSE LET e == MatchAt(s, i) IN
         IF e # 0 THEN <<i, e>> ELSE re_search(s, i + 1)

\* float(text) of digits with an optional decimal part
float(t) ==
    LET f == split_on(t, ".") IN
    IF Len(f) = 1 THEN RInt(DigitsValue(f[1], 1, 0))
    ELSE Rat(DigitsValue(f[1], 1, 0) * Pow10(Len(f[2])) + DigitsValue(f[2], 1, 0),
             Pow10(Len(f[2])))

extract_coupon_value(coupon_str) ==
    IF ~IsStr(coupon_str) THEN Raise("TypeError")
    ELSE LET match == re_search(coupon_str, 1) IN
         IF match[1] # 0 THEN Ok(float(SubSeq(coupon_str, match[1], match[2])))
         ELSE Ok(RInt(0))

coupon_score(bond_coupon, user_coupon) ==
    LET bond_coupon_val == extract_coupon_value(bond_coupon) IN
    IF ~bond_coupon_val.ok THEN bond_coupon_val
    ELSE IF user_coupon[1] = 0 THEN Raise("ZeroDivisionError")
    ELSE Ok(RMax(RInt(0),
                 RSub(RInt(1), RDiv(RAbs(RSub(bond_coupon_val.val, user_coupon)),
                                    user_coupon))))

RedemptionWindowYears == 10

redemption_score(bond_redemption, user_year) ==
    IF ~IsStr(bond_redemption) THEN Raise("AttributeError")
    ELSE LET parts == split_on(bond_redemption, "-")
             bond_year == int(parts[Len(parts)])
         IN  IF ~bond_year.ok THEN bond_year
             ELSE Ok(RMax(RInt(0),
                          RSub(RInt(1), Rat(Abs(bond_year.val - user_year),
                                            RedemptionWindowYears))))

\* the whole rating text handed to rating_score
RatingSymbol_Mut(text) ==
    IF ~IsStr(text) THEN Raise("AttributeError")
    ELSE IF split(text) = <<>> THEN Raise("IndexError")
    ELSE Ok(text)

\* the rating symbol handed to rating_score: text.split()[0]
RatingSymbol(text) ==
    IF ~IsStr(text) THEN Raise("AttributeError")
    ELSE IF split(text) = <<>> THEN Raise("IndexError")
    ELSE Ok(split(text)[1])

CouponWeight == Rat(3, 10)
RatingWeight == Rat(3, 10)
InterestWeight == Rat(2, 10)
RedemptionWeight == Rat(2, 10)

\* the rating symbol read from another key of the bond
bond_score_Mut(bond, prefs) ==
    LET c == coupon_score(bond["COUPON_RATE"], prefs.coupon_rate) IN
    IF ~c.ok THEN c ELSE
    LET sym == RatingSymbol(bond["COMPANY"]) IN
    IF ~sym.ok THEN sym ELSE
    LET r == rating_score(sym.val, prefs.rating) IN
    IF ~r.ok THEN r ELSE
    LET f == interest_score(bond["FREQUENCY_OF_THE_INTEREST_PAYMENT"],
                            prefs.interest_frequency) IN
    IF ~f.ok THEN f ELSE
    LET y == redemption_score(bond["REDEMPTION"], prefs.redemption_year) IN
    IF ~y.ok THEN y ELSE
    Ok(RAdd(RAdd(RAdd(RAdd(RInt(0), RMul(CouponWeight, c.val)),
                      RMul(RatingWeight, r.val)),
                 RMul(InterestWeight, f.val)),
            RMul(RedemptionWeight, y.val)))

bond_score(bond, prefs) ==
    LET c == coupon_score(bond["COUPON_RATE"], prefs.coupon_rate) IN
    IF ~c.ok THEN c ELSE
    LET sym == RatingSymbol(bond["CREDIT_RATING_CREDIT_RATING_AGENCY"]) IN
    IF ~sym.ok THEN sym ELSE
    LET r == rating_score(sym.val, prefs.rating) IN
    IF ~r.ok THEN r ELSE
    LET f == interest_score(bond["FREQUENCY_OF_THE_INTEREST_PAYMENT"],
                            prefs.interest_frequency) IN
    IF ~f.ok THEN f ELSE
    LET y == redemption_score(bond["REDEMPTION"], prefs.redemption_year) IN
    IF ~y.ok THEN y ELSE
    Ok(RAdd(RAdd(RAdd(RAdd(RInt(0), RMul(CouponWeight, c.val)),
                      RMul(RatingWeight, r.val)),
                 RMul(InterestWeight, f.val)),
            RMul(RedemptionWeight, y.val)))

(***************************************************************************)
(* Ranker                                                                  *)
(***************************************************************************)
\* a sort that puts a new item ahead of the placed items of equal key
StaysAhead_Mut(placed_key, new_key) == RLess(new_key, placed_key)

\* does the item already placed at a position stay ahead of the new item
StaysAhead(placed_key, new_key) == RLeq(new_key, placed_key)

\* sorted(..., reverse=True): descending, equal keys keep their input order
RECURSIVE InsertSorted(_, _, _)
InsertSorted(out, item, i) ==
    IF i > Len(out) THEN Append(out, item)
    ELSE IF StaysAhead(out[i].key, item.key) THEN InsertSorted(out, item, i + 1)
    ELSE SubSeq(out, 1, i - 1) \o <<item>> \o SubSeq(out, i, Len(out))

RECURSIVE SortKeyed(_, _, _)
SortKeyed(items, i, out) ==
    IF i > Len(items) THEN out
    ELSE SortKeyed(items, i + 1, InsertSorted(out, items[i], 1))

\* the keys are computed for every element, in order, before the sort
RECURSIVE FirstKeyError(_, _)
FirstKeyError(keys, i) ==
    IF i > Len(keys) THEN 0
    ELSE IF ~keys[i].ok THEN i ELSE FirstKeyError(keys, i + 1)

get_bond_recommendations(bonds, prefs) ==
    LET keys == [i \in 1..Len(bonds) |-> bond_score(bonds[i], prefs)]
        bad == FirstKeyError(keys, 1)
    IN  IF bad # 0 THEN keys[bad]
        ELSE LET items == [i \in 1..Len(bonds) |-> [bond |-> bonds[i], key |-> keys[i].val]]
                 sorted == SortKeyed(items, 1, <<>>)
             IN  Ok([i \in 1..Len(sorted) |-> sorted[i].bond])

(***************************************************************************)
(* Texts of the catalogs and preferences explored                          *)
(***************************************************************************)
T_INE001 == <<"I","N","E","0","0","1">>
T_INE002 == <<"I","N","E","0","0","2">>
T_INE003 == <<"I","N","E","0","0","3">>
T_CoAlpha == <<"A","l","p","h","a">>
T_CoBeta == <<"B","e","t","a">>
T_Series1 == <<"I">>
T_D_15_03_2028 == <<"1","5","-","0","3","-","2","0","2","8">>
T_D_16_03_2028 == <<"1","6","-","0","3","-","2","0","2","8">>
T_D_01_01_2031 == <<"0","1","-","0","1","-","2","0","3","1">>
T_D_30_02_2028 == <<"3","0","-","0","2","-","2","0","2","8">>
T_D_2028_03_16 == <<"2","0","2","8","-","0","3","-","1","6">>
T_D_16_03_2045 == <<"1","6","-","0","3","-","2","0","4","5">>
T_C_7_25_pa == <<"7",".","2","5","%"," ","p",".","a",".">>
T_C_7 == <<"7","%">>
T_C_NA == <<"C","o","u","p","o","n"," ","N","/","A">>
T_C_Fixed_8_5 == <<"F","i","x","e","d"," ","8",".","5","%"," ","p","a","y","a","b","l","e">>
T_C_1_2_3 == <<"1",".","2",".","3","%">>
T_C_dot5 == <<".","5","%">>
T_C_7dot == <<"7",".","%">>
T_C_12_5_then_7 == <<"1","2",".","5"," ","7","%">>
T_C_14 == <<"1","4","%">>
T_F_Annually == <<"A","n","n","u","a","l","l","y">>
T_F_SemiAnnually == <<"S","e","m","i","-","a","n","n","u","a","l","l","y">>
T_F_Quarterly == <<"Q","u","a","r","t","e","r","l","y">>
T_F_Monthly == <<"M","o","n","t","h","l","y">>
T_F_OnMaturity == <<"O","n"," ","M","a","t","u","r","i","t","y">>
T_F_QUARTERLY_long == <<"Q","U","A","R","T","E","R","L","Y"," ","I","n","t","e","r","e","s","t",
                        " ","P","a","y","m","e","n","t">>
T_F_quarterly == <<"q","u","a","r","t","e","r","l","y">>
T_F_ANNUALLY == <<"A","N","N","U","A","L","L","Y">>
T_R_AA_Stable == <<"A","A"," ","S","t","a","b","l","e">>
T_R_AAminus_Stable == <<" ","A","A","-"," "," ","S","t","a","b","l","e">>
T_R_Aplus == <<"A","+">>
T_R_AAA_CRISIL == <<"A","A","A"," ","(","C","R","I","S","I","L",")">>
T_R_blank == <<" "," ">>
T_R_aa == <<"a","a"," ","b","y"," ","I","C","R","A">>
T_AA == <<"A","A">>
T_AAminus == <<"A","A","-">>
T_A == <<"A">>
T_aa == <<"a","a">>
T_AAA == <<"A","A","A">>
T_BBB == <<"B","B","B">>
T_Empty == <<>>

\* records of bond_details.json: repeated ISINs, redemption dates on both
\* sides of the margin, an impossible date, missing keys, an unselected key
RawBonds ==
    { [ISIN |-> T_INE001, COMPANY |-> T_CoAlpha, REDEMPTION |-> T_D_15_03_2028,
       COUPON_RATE |-> T_C_7_25_pa, FREQUENCY_OF_THE_INTEREST_PAYMENT |-> T_F_Quarterly,
       CREDIT_RATING_CREDIT_RATING_AGENCY |-> T_R_AA_Stable, SERIES |-> T_Series1],
      [ISIN |-> T_INE001, COMPANY |-> T_CoBeta, REDEMPTION |-> T_D_16_03_2028,
       COUPON_RATE |-> T_C_7, FREQUENCY_OF_THE_INTEREST_PAYMENT |-> T_F_SemiAnnually,
       CREDIT_RATING_CREDIT_RATING_AGENCY |-> T_R_AAminus_Stable],
      [ISIN |-> T_INE002, COMPANY |-> T_CoAlpha, REDEMPTION |-> T_D_16_03_2028,
       COUPON_RATE |-> T_C_7, FREQUENCY_OF_THE_INTEREST_PAYMENT |-> T_F_SemiAnnually,
       CREDIT_RATING_CREDIT_RATING_AGENCY |-> T_R_AAminus_Stable],
      [ISIN |-> T_INE003, COMPANY |-> T_CoAlpha, REDEMPTION |-> T_D_30_02_2028,
       COUPON_RATE |-> T_C_7, FREQUENCY_OF_THE_INTEREST_PAYMENT |-> T_F_Monthly,
       CREDIT_RATING_CREDIT_RATING_AGENCY |-> T_R_AA_Stable],
      [ISIN |-> T_INE003, COMPANY |-> T_CoBeta, REDEMPTION |-> T_D_16_03_2028,
       COUPON_RATE |-> T_C_Fixed_8_5, FREQUENCY_OF_THE_INTEREST_PAYMENT |-> T_F_Monthly,
       CREDIT_RATING_CREDIT_RATING_AGENCY |-> T_R_AAA_CRISIL],
      [COMPANY |-> T_CoBeta, REDEMPTION |-> T_D_01_01_2031,
       FREQUENCY_OF_THE_INTEREST_PAYMENT |-> T_F_Quarterly,
       CREDIT_RATING_CREDIT_RATING_AGENCY |-> T_R_AA_Stable] }

RawCatalogs == UNION { [1..n -> RawBonds] : n \in 0..MaxCatalog }

\* datetime.now(): 380 days before 15-03-2028 at every time of day, and the
\* evening before
Nows ==
    { [year |-> 2027, month |-> 3, day |-> 1, tick |-> k] : k \in 0..(TicksPerDay - 1) }
    \cup { [year |-> 2027, month |-> 2, day |-> 28, tick |-> TicksPerDay - 1] }

Prefs(c, r, f, y) ==
    [coupon_rate |-> c, rating |-> r, interest_frequency |-> f, redemption_year |-> y]

UserPreferences ==
    { Prefs(Rat(7, 1), T_AA, T_F_Annually, 2028),
      Prefs(Rat(29, 4), T_A, T_F_quarterly, 2030),
      Prefs(Rat(0, 1), T_AA, T_F_Annually, 2028),
      Prefs(Rat(-7, 1), T_AA, T_F_Quarterly, 2028) }

(***************************************************************************)
(* Texts of the form (frontend/frontend/frontend.py); the pictographs in   *)
(* front of the loading messages are left out                              *)
(***************************************************************************)
T_Analyzing == <<"A","n","a","l","y","z","i","n","g"," ","b","o","n","d","s",".",".",".">>
T_Searching == <<"S","e","a","r","c","h","i","n","g"," ","b","o","n","d"," ","d","a","t","a","b","a","s","e",".",".",".">>
T_AiAnalyzing == <<"A","I"," ","i","s"," ","a","n","a","l","y","z","i","n","g"," ","y","o","u","r"," ","p","r","e","f","e","r","e","n","c","e","s",".",".",".">>
T_Processing == <<"P","r","o","c","e","s","s","i","n","g"," ","r","e","s","u","l","t","s",".",".",".">>
E_Coupon == <<"E","r","r","o","r",":"," ","C","o","u","p","o","n"," ","r","a","t","e"," ","m","u","s","t"," ","b","e"," ","g","r","e","a","t","e","r"," ","t","h","a","n"," ","0">>
E_Rating == <<"E","r","r","o","r",":"," ","P","l","e","a","s","e"," ","s","e","l","e","c","t"," ","a"," ","c","r","e","d","i","t"," ","r","a","t","i","n","g">>
E_Frequency == <<"E","r","r","o","r",":"," ","P","l","e","a","s","e"," ","s","e","l","e","c","t"," ","a","n"," ","i","n","t","e","r","e","s","t"," ","f","r","e","q","u","e","n","c","y">>
E_Year == <<"E","r","r","o","r",":"," ","R","e","d","e","m","p","t","i","o","n"," ","y","e","a","r"," ","m","u","s","t"," ","b","e"," ","2","0","2","4"," ","o","r"," ","l","a","t","e","r">>
E_Timeout == <<"E","r","r","o","r",":"," ","R","e","q","u","e","s","t"," ","t","i","m","e","d"," ","o","u","t","."," ","T","h","e"," ","A","I"," ","a","n","a","l","y","s","i","s"," ","i","s"," ","t","a","k","i","n","g"," ","t","o","o"," ","l","o","n","g",".">>
E_422 == <<"E","r","r","o","r",":"," ","I","n","v","a","l","i","d"," ","i","n","p","u","t"," ","p","a","r","a","m","e","t","e","r","s","."," ","P","l","e","a","s","e"," ","c","h","e","c","k"," ","y","o","u","r"," ","v","a","l","u","e","s",".">>
E_500 == <<"E","r","r","o","r",":"," ","I","n","t","e","r","n","a","l"," ","s","e","r","v","e","r"," ","e","r","r","o","r","."," ","P","l","e","a","s","e"," ","t","r","y"," ","a","g","a","i","n"," ","l","a","t","e","r",".">>
E_Status == <<"E","r","r","o","r",":"," ","A","P","I"," ","r","e","q","u","e","s","t"," ","f","a","i","l","e","d"," ","w","i","t","h"," ","s","t","a","t","u","s"," ">>
E_Connect == <<"E","r","r","o","r",":"," ","C","a","n","n","o","t"," ","c","o","n","n","e","c","t"," ","t","o"," ","t","h","e"," ","A","P","I"," ","s","e","r","v","e","r","."," ","P","l","e","a","s","e"," ","e","n","s","u","r","e"," ","t","h","e"," ","b","a","c","k","e","n","d"," ","i","s"," ","r","u","n","n","i","n","g"," ","o","n"," ","p","o","r","t"," ","8","0","0","0",".">>
E_Unexpected == <<"E","r","r","o","r",":"," ","A","n"," ","u","n","e","x","p","e","c","t","e","d"," ","e","r","r","o","r"," ","o","c","c","u","r","r","e","d",":"," ">>
T_NoResults == <<"N","o"," ","R","e","s","u","l","t","s",":"," ">>
T_NoAnalysisFound == <<"N","o"," ","a","n","a","l","y","s","i","s"," ","f","o","u","n","d",".">>

\* the fields of State as the class declares them
FormDefaults ==
    [coupon_rate |-> Rat(0, 1), rating |-> T_Empty, interest_frequency |-> T_Empty,
     redemption_year |-> 2024, analysis |-> T_Empty, processing |-> FALSE,
     loading_message |-> T_Analyzing]

(***************************************************************************)
(* State                                                                   *)
(***************************************************************************)
VARIABLES
    bond_details,       \* content of bond_details.json
    current_date,       \* datetime.now() at load time
    active_bonds,       \* what load_and_prepare_bonds returned or raised
    user_preferences,   \* preferences of the last recommendation request
    recommendations,    \* what get_bond_recommendations returned or raised
    reranked,           \* the same call on its own output
    call,               \* the scoring function last called, with its arguments
    result,             \* what that call returned or raised
    pc,
    state,              \* the fields of the form's State
    handler,            \* where get_recommendations of the form stands
    requests,           \* the bodies posted to /recommend, in order
    messages,           \* state["messages"] of the narrative graph
    node                \* the node of the narrative graph that runs next

vars == <<bond_details, current_date, active_bonds, user_preferences,
          recommendations, reranked, call, result, pc,
          state, handler, requests, messages, node>>

Unset == Raise("unset")
NoCall == [fn |-> "none", args |-> <<>>]
NoPrefs == Prefs(Rat(1, 1), T_Empty, T_Empty, 0)

formVars == <<state, handler, requests>>
graphVars == <<messages, node>>

\* the form untouched and no narrative graph running
FormIdle == state = FormDefaults /\ handler = "idle" /\ requests = <<>>
GraphIdle == messages = <<>> /\ node = "none"

catalogVars == <<bond_details, current_date, active_bonds, user_preferences,
                 recommendations, reranked>>
scoreVars == <<call, result>>

Init ==
    /\ bond_details \in RawCatalogs
    /\ current_date \in Nows
    /\ active_bonds = Unset
    /\ user_preferences = NoPrefs
    /\ recommendations = Unset
    /\ reranked = Unset
    /\ call = NoCall
    /\ result = Unset
    /\ pc = "start"
    /\ FormIdle /\ GraphIdle

\* active_bonds = load_and_prepare_bonds()
LoadCatalog ==
    /\ pc = "start"
    /\ active_bonds' = load_and_prepare_bonds(bond_details, current_date)
    /\ pc' = IF active_bonds'.ok THEN "loaded" ELSE "failed"
    /\ UNCHANGED <<bond_details, current_date, user_preferences, recommendations,
                   reranked, scoreVars, formVars, graphVars>>

\* the list sorted in place, as list.sort() would leave it
ListAfterSorted_Mut(bonds, ranked) == IF ranked.ok THEN ranked.val ELSE bonds

\* the list handed to sorted() after the call: sorted() builds a new list
ListAfterSorted(bonds, ranked) == bonds

\* a request: get_bond_recommendations(active_bonds, user_preferences)
Recommend ==
    /\ pc \in {"loaded", "ranked", "reranked"}
    /\ \E prefs \in UserPreferences :
          /\ user_preferences' = prefs
          /\ recommendations' = get_bond_recommendations(active_bonds.val, prefs)
    /\ active_bonds' = Ok(ListAfterSorted(active_bonds.val, recommendations'))
    /\ reranked' = Unset
    /\ pc' = "ranked"
    /\ UNCHANGED <<bond_details, current_date, scoreVars, formVars, graphVars>>

\* get_bond_recommendations(recommendations, user_preferences)
Rerank ==
    /\ pc = "ranked"
    /\ recommendations.ok
    /\ reranked' = get_bond_recommendations(recommendations.val, user_preferences)
    /\ recommendations' = Ok(ListAfterSorted(recommendations.val, reranked'))
    /\ pc' = "reranked"
    /\ UNCHANGED <<bond_details, current_date, active_bonds, user_preferences, scoreVars, formVars, graphVars>>

Next == LoadCatalog \/ Recommend \/ Rerank

Spec == Init /\ [][Next]_vars

(***************************************************************************)
(* Properties of the catalog loader and the ranker                         *)
(***************************************************************************)
\* the calendar day of a record's redemption date and of the load
RedemptionDay(bond) == strptime_dmy(bond["REDEMPTION"]).val \div TicksPerDay
AsOfDay == ToOrdinal(current_date.year, current_date.month, current_date.day)
LaterThanMargin(bond) == RedemptionDay(bond) > AsOfDay + 380

Loaded == pc # "start" /\ active_bonds.ok
Carriers(x) == { i \in 1..Len(bond_details) : get(bond_details[i], "ISIN") = x }
ActiveCarriers(x) == { i \in Carriers(x) : LaterThanMargin(bond_details[i]) }
Min(S) == CHOOSE i \in S : \A k \in S : i <= k
Positions(seq, x) == { j \in 1..Len(seq) : seq[j]["ISIN"] = x }

\* C1, as stated: the loaded list holds no identifier twice, and the record
\* retained for an identifier is the first record of the raw catalog that
\* carries it.
C1_FirstInInputOrder ==
    Loaded =>
        \A j \in 1..Len(active_bonds.val) :
            LET x == active_bonds.val[j]["ISIN"] IN
            /\ Cardinality(Positions(active_bonds.val, x)) = 1
            /\ active_bonds.val[j] = Project(bond_details[Min(Carriers(x))])

\* C1, amended: the loaded list holds exactly once each identifier carried by
\* a record redeeming later than the margin, and no other identifier; the
\* record retained for it is the selected fields of the first such record in
\* input order.
C1_FirstActiveInInputOrder ==
    Loaded =>
        /\ \A i \in 1..Len(bond_details) :
              LET x == get(bond_details[i], "ISIN") IN
              IF ActiveCarriers(x) = {}
              THEN Positions(active_bonds.val, x) = {}
              ELSE /\ Cardinality(Positions(active_bonds.val, x)) = 1
                   /\ \A j \in Positions(active_bonds.val, x) :
                         active_bonds.val[j] = Project(bond_details[Min(ActiveCarriers(x))])
        /\ \A j \in 1..Len(active_bonds.val) :
              Carriers(active_bonds.val[j]["ISIN"]) # {}

\* a catalog was loaded in which two different records of one identifier
\* both redeem later than the margin: the first is kept, the second is not
C1_Witness ==
    /\ Loaded
    /\ \E i, k \in 1..Len(bond_details) :
          /\ i < k
          /\ get(bond_details[i], "ISIN") = get(bond_details[k], "ISIN")
          /\ LaterThanMargin(bond_details[i])
          /\ LaterThanMargin(bond_details[k])
          /\ Project(bond_details[i]) # Project(bond_details[k])
          /\ \E j \in 1..Len(active_bonds.val) :
                active_bonds.val[j] = Project(bond_details[i])
          /\ \A j \in 1..Len(active_bonds.val) :
                active_bonds.val[j] # Project(bond_details[k])

ScoreOf(bond) == bond_score(bond, user_preferences).val
IndexIn(seq, x) == CHOOSE j \in 1..Len(seq) : seq[j] = x
Ranked == pc \in {"ranked", "reranked"}

\* C3: a ranking that returns holds the bonds of the loaded list, each once,
\* in descending order of bond_score, two bonds of equal score in the order
\* they had in the loaded list; the empty list is ranked to the empty list.
C3_StableDescending ==
    Ranked =>
        /\ active_bonds.val = <<>> => recommendations = Ok(<<>>)
        /\ recommendations.ok =>
              LET in == active_bonds.val
                  out == recommendations.val
              IN  /\ Len(out) = Len(in)
                  /\ \A i \in 1..Len(in) :
                        Cardinality({ j \in 1..Len(out) : out[j] = in[i] }) = 1
                  /\ \A j \in 1..(Len(out) - 1) :
                        RLeq(ScoreOf(out[j + 1]), ScoreOf(out[j]))
                  /\ \A i, k \in 1..Len(in) :
                        (i < k /\ ScoreOf(in[i]) = ScoreOf(in[k]))
                            => IndexIn(out, in[i]) < IndexIn(out, in[k])

\* a ranking returned three bonds in another order than the loaded list, two
\* of them with equal score
C3_Witness ==
    /\ Ranked
    /\ recommendations.ok
    /\ Len(recommendations.val) = 3
    /\ recommendations.val # active_bonds.val
    /\ \E i, k \in 1..3 :
          /\ i < k
          /\ ScoreOf(active_bonds.val[i]) = ScoreOf(active_bonds.val[k])
          /\ active_bonds.val[i] # active_bonds.val[k]

\* C4: ranking the output of a ranking again, under the same preferences,
\* returns it unchanged.
C4_RerankIdempotent ==
    pc = "reranked" => reranked = recommendations

\* a ranking that moved bonds and held a tie was ranked again
C4_Witness ==
    /\ pc = "reranked"
    /\ reranked.ok
    /\ Len(reranked.val) >= 2
    /\ recommendations.val # active_bonds.val
    /\ \E i, k \in 1..Len(reranked.val) :
          i < k /\ ScoreOf(reranked.val[i]) = ScoreOf(reranked.val[k])

(***************************************************************************)
(* The scoring functions called one by one                                 *)
(***************************************************************************)
RatingSymbols == {T_AA, T_AAminus, T_A, T_aa, T_AAA, T_BBB, T_R_Aplus, T_Empty}
TargetRatings == {T_AA, T_A, T_aa, T_AAA, T_BBB, T_Empty}
FrequencyTexts == {T_F_Annually, T_F_SemiAnnually, T_F_Quarterly, T_F_Monthly,
                   T_F_OnMaturity, T_F_QUARTERLY_long, T_F_ANNUALLY, T_Empty, None}
\* State.frequencies of the form, and other spellings
TargetFrequencies == {T_F_Annually, T_F_SemiAnnually, T_F_Quarterly, T_F_Monthly,
                      T_F_OnMaturity, T_F_quarterly, T_Empty}
CouponTexts == {T_C_7_25_pa, T_C_7, T_C_NA, T_C_Fixed_8_5, T_C_1_2_3, T_C_dot5,
                T_C_7dot, T_C_12_5_then_7, T_C_14, T_Empty, None}
TargetCoupons == {Rat(7, 1), Rat(29, 4), Rat(14, 1), Rat(1, 2), Rat(0, 1), Rat(-7, 1)}
RedemptionTexts == {T_D_15_03_2028, T_D_01_01_2031, T_D_30_02_2028, T_D_2028_03_16,
                    T_D_16_03_2045, T_C_NA, None}
TargetYears == {2024, 2028, 2030, 2050}

ScoredBonds ==
    { Project([COMPANY |-> n, COUPON_RATE |-> c, CREDIT_RATING_CREDIT_RATING_AGENCY |-> r,
               FREQUENCY_OF_THE_INTEREST_PAYMENT |-> f, REDEMPTION |-> d]) :
        n \in {T_CoAlpha, T_CoBeta},
        c \in {T_C_7_25_pa, T_C_7, T_C_NA, T_C_Fixed_8_5, None},
        r \in {T_R_AA_Stable, T_R_AAminus_Stable, T_R_Aplus, T_R_blank, T_R_aa},
        f \in {T_F_Quarterly, T_F_SemiAnnually, T_F_ANNUALLY},
        d \in {T_D_15_03_2028, T_D_01_01_2031, T_D_16_03_2045} }

ScoringPreferences ==
    { Prefs(c, r, f, y) :
        c \in {Rat(7, 1), Rat(29, 4), Rat(0, 1), Rat(-7, 1)},
        r \in {T_AA, T_A, T_Empty},
        f \in {T_F_Annually, T_F_quarterly},
        y \in {2028, 2030} }

InitScore ==
    /\ bond_details = <<>>
    /\ current_date = [year |-> 2027, month |-> 3, day |-> 1, tick |-> 0]
    /\ active_bonds = Unset
    /\ user_preferences = NoPrefs
    /\ recommendations = Unset
    /\ reranked = Unset
    /\ call = NoCall
    /\ result = Unset
    /\ pc = "scoring"
    /\ FormIdle /\ GraphIdle

CallRatingScore ==
    /\ pc = "scoring"
    /\ \E b \in RatingSymbols, u \in TargetRatings :
          /\ call' = [fn |-> "rating_score", args |-> <<b, u>>]
          /\ result' = rating_score(b, u)
    /\ pc' = "returned"
    /\ UNCHANGED <<catalogVars, formVars, graphVars>>

CallInterestScore ==
    /\ pc = "scoring"
    /\ \E b \in FrequencyTexts, u \in TargetFrequencies :
          /\ call' = [fn |-> "interest_score", args |-> <<b, u>>]
          /\ result' = interest_score(b, u)
    /\ pc' = "returned"
    /\ UNCHANGED <<catalogVars, formVars, graphVars>>

CallExtractCouponValue ==
    /\ pc = "scoring"
    /\ \E t \in CouponTexts :
          /\ call' = [fn |-> "extract_coupon_value", args |-> <<t>>]
          /\ result' = extract_coupon_value(t)
    /\ pc' = "returned"
    /\ UNCHANGED <<catalogVars, formVars, graphVars>>

CallCouponScore ==
    /\ pc = "scoring"
    /\ \E t \in CouponTexts, u \in TargetCoupons :
          /\ call' = [fn |-> "coupon_score", args |-> <<t, u>>]
          /\ result' = coupon_score(t, u)
    /\ pc' = "returned"
    /\ UNCHANGED <<catalogVars, formVars, graphVars>>

CallRedemptionScore ==
    /\ pc = "scoring"
    /\ \E t \in RedemptionTexts, y \in TargetYears :
          /\ call' = [fn |-> "redemption_score", args |-> <<t, y>>]
          /\ result' = redemption_score(t, y)
    /\ pc' = "returned"
    /\ UNCHANGED <<catalogVars, formVars, graphVars>>

CallBondScore ==
    /\ pc = "scoring"
    /\ \E bond \in ScoredBonds, prefs \in ScoringPreferences :
          /\ call' = [fn |-> "bond_score", args |-> <<bond, prefs>>]
          /\ result' = bond_score(bond, prefs)
    /\ pc' = "returned"
    /\ UNCHANGED <<catalogVars, formVars, graphVars>>

NextScore ==
    \/ CallRatingScore
    \/ CallInterestScore
    \/ CallExtractCouponValue
    \/ CallCouponScore
    \/ CallRedemptionScore
    \/ CallBondScore

SpecScore == InitScore /\ [][NextScore]_vars

(***************************************************************************)
(* Properties of the scoring functions                                     *)
(***************************************************************************)
Called(fn) == pc = "returned" /\ call.fn = fn
Zero == RInt(0)
One == RInt(1)
InUnitInterval(v) == RLeq(Zero, v) /\ RLeq(v, One)

\* the first whitespace-delimited token of a text, if it has one
Tokens(text) ==
    { <<i, e>> \in (1..Len(text)) \X (1..Len(text)) :
        /\ i <= e
        /\ \A k \in i..e : ~IsSpace(text[k])
        /\ \A k \in 1..(i - 1) : IsSpace(text[k])
        /\ e = Len(text) \/ IsSpace(text[e + 1]) }
FirstToken(text) == LET t == CHOOSE t \in Tokens(text) : TRUE IN SubSeq(text, t[1], t[2])

\* C5: when the four sub-scores of a bond are defined, bond_score returns
\* (3 * coupon + 3 * rating + 2 * frequency + 2 * redemption) / 10, the
\* rating sub-score being taken on the first whitespace-delimited token of
\* the credit rating text; when one is not defined it returns no score.
C5_WeightedSum ==
    Called("bond_score") =>
        LET bond == call.args[1]
            prefs == call.args[2]
            text == bond["CREDIT_RATING_CREDIT_RATING_AGENCY"]
            hasToken == IsStr(text) /\ Tokens(text) # {}
            c == coupon_score(bond["COUPON_RATE"], prefs.coupon_rate)
            r == rating_score(FirstToken(text), prefs.rating)
            f == interest_score(bond["FREQUENCY_OF_THE_INTEREST_PAYMENT"],
                                prefs.interest_frequency)
            y == redemption_score(bond["REDEMPTION"], prefs.redemption_year)
        IN  IF c.ok /\ hasToken /\ r.ok /\ f.ok /\ y.ok
            THEN /\ result.ok
                 /\ RMul(RInt(10), result.val) =
                       RAdd(RAdd(RMul(RInt(3), c.val), RMul(RInt(3), r.val)),
                            RAdd(RMul(RInt(2), f.val), RMul(RInt(2), y.val)))
            ELSE ~result.ok

\* bond_score returned for a rating text of several tokens after leading
\* blanks, with an exact rating match and a partial coupon match
C5_Witness ==
    /\ Called("bond_score")
    /\ result.ok
    /\ call.args[1]["CREDIT_RATING_CREDIT_RATING_AGENCY"] = T_R_AAminus_Stable
    /\ call.args[1]["COUPON_RATE"] = T_C_7_25_pa
    /\ call.args[2].coupon_rate = Rat(7, 1)
    /\ call.args[2].rating = T_AA
    /\ RLess(Zero, result.val)
    /\ RLess(result.val, One)

\* C6, as stated: every sub-score and the total score that a scoring call
\* returns lies in [0, 1], whatever the preferences.
C6_ScoresInUnitInterval ==
    (/\ pc = "returned"
     /\ call.fn \in {"coupon_score", "rating_score", "interest_score",
                     "redemption_score", "bond_score"}
     /\ result.ok)
        => InUnitInterval(result.val)

\* C7, as stated: scoring against a target coupon rate that is zero or
\* negative raises and returns no score.
C7_NonPositiveTargetRaises ==
    /\ (Called("coupon_score") /\ RLeq(call.args[2], Zero)) => ~result.ok
    /\ (Called("bond_score") /\ RLeq(call.args[2].coupon_rate, Zero)) => ~result.ok

\* C8: for a target rating that is not empty, rating_score is 1 when the
\* bond's symbol equals the target character for character, otherwise 1/2
\* when both start with the same character, otherwise 0; "AA" against target
\* "AA" scores strictly higher than "AA-".
C8_RatingScore ==
    /\ (Called("rating_score") /\ call.args[2] # <<>>) =>
          LET b == call.args[1]
              u == call.args[2]
          IN  result = Ok(IF b = u THEN One
                          ELSE IF b # <<>> /\ b[1] = u[1] THEN Rat(1, 2)
                          ELSE Zero)
    /\ rating_score(T_AA, T_AA) = Ok(One)
    /\ rating_score(T_AAminus, T_AA) = Ok(Rat(1, 2))
    /\ rating_score(T_aa, T_AA) = Ok(Zero)

\* rating_score was called with "A+" against target "AA" and returned 1/2
C8_Witness ==
    /\ Called("rating_score")
    /\ call.args = <<T_R_Aplus, T_AA>>
    /\ result = Ok(Rat(1, 2))

\* the target, lower-cased, occurs as a contiguous run of the text, lower-cased
OccursIn(target, text) ==
    \E k \in 0..Len(text) :
        /\ k + Len(target) <= Len(text)
        /\ \A n \in 1..Len(target) : LowerChar(text[k + n]) = LowerChar(target[n])

\* C9: interest_score of a frequency text is 1 exactly when the lower-cased
\* target occurs in the lower-cased text as a contiguous substring, and 0
\* otherwise.
C9_InterestScore ==
    (Called("interest_score") /\ IsStr(call.args[1])) =>
        result = Ok(IF OccursIn(call.args[2], call.args[1]) THEN One ELSE Zero)

\* target "Annually" scored 1 against the bond frequency "Semi-annually"
C9_Witness ==
    /\ Called("interest_score")
    /\ call.args = <<T_F_SemiAnnually, T_F_Annually>>
    /\ result = Ok(One)

\* digits with an optional decimal part
IsNumberText(t) ==
    LET f == split_on(t, ".") IN
    \/ Len(f) = 1 /\ AllDigits(f[1])
    \/ Len(f) = 2 /\ AllDigits(f[1]) /\ AllDigits(f[2])

\* the occurrences in a text of a number immediately followed by %
Occurrences(s) ==
    { o \in (1..Len(s)) \X (1..Len(s)) :
        /\ o[1] <= o[2]
        /\ o[2] < Len(s)
        /\ s[o[2] + 1] = "%"
        /\ IsNumberText(SubSeq(s, o[1], o[2])) }
FirstOccurrence(s) ==
    CHOOSE o \in Occurrences(s) : \A q \in Occurrences(s) : o[1] <= q[1]
ExtractedValue(s) ==
    IF Occurrences(s) = {} THEN Zero
    ELSE LET o == FirstOccurrence(s)
             f == split_on(SubSeq(s, o[1], o[2]), ".")
         IN  IF Len(f) = 1 THEN RInt(DigitsValue(f[1], 1, 0))
             ELSE RAdd(RInt(DigitsValue(f[1], 1, 0)),
                       Rat(DigitsValue(f[2], 1, 0), Pow10(Len(f[2]))))

\* C10: extract_coupon_value of a text returns the number of the first
\* occurrence of digits with an optional decimal part immediately followed
\* by %, and 0 when there is none; a coupon_score that returns is
\* max(0, 1 - |extracted - target| / target).
C10_ExtractCoupon ==
    /\ (Called("extract_coupon_value") /\ IsStr(call.args[1])) =>
          result = Ok(ExtractedValue(call.args[1]))
    /\ (Called("coupon_score") /\ IsStr(call.args[1]) /\ call.args[2] # Zero) =>
          LET v == ExtractedValue(call.args[1])
              t == call.args[2]
              x == RSub(One, RDiv(RAbs(RSub(v, t)), t))
          IN  result = Ok(IF RLess(x, Zero) THEN Zero ELSE x)

\* the number was found after other words: "Fixed 8.5% payable" gave 8.5
C10_Witness ==
    /\ Called("extract_coupon_value")
    /\ call.args[1] = T_C_Fixed_8_5
    /\ Occurrences(call.args[1]) # {}
    /\ result = Ok(Rat(17, 2))

\* the four fields of a bond that bond_score reads
ScoredFields ==
    {"COUPON_RATE", "CREDIT_RATING_CREDIT_RATING_AGENCY",
     "FREQUENCY_OF_THE_INTEREST_PAYMENT", "REDEMPTION"}
SameScoredFields(a, b) == \A field \in ScoredFields : a[field] = b[field]

\* C11: under the same preferences, every bond that agrees with the scored
\* bond on its coupon text, credit-rating text, payment-frequency text and
\* redemption date gets the same score (or the same error), whatever its
\* other fields.
C11_OnlyScoredFieldsMatter ==
    Called("bond_score") =>
        \A other \in ScoredBonds :
            SameScoredFields(other, call.args[1])
                => bond_score(other, call.args[2]) = result

\* a bond was scored that has a twin of another company with the same four
\* fields, and the score is neither 0 nor an error
C11_Witness ==
    /\ Called("bond_score")
    /\ result.ok
    /\ RLess(Zero, result.val)
    /\ \E other \in ScoredBonds :
          /\ other # call.args[1]
          /\ other["COMPANY"] # call.args[1]["COMPANY"]
          /\ SameScoredFields(other, call.args[1])

(***************************************************************************)
(* Further properties of the catalog loader                                *)
(***************************************************************************)
\* the redemption date of a raw record is a DD-MM-YYYY date
ParsesAsDMY(bond) ==
    /\ "REDEMPTION" \in DOMAIN bond
    /\ IsStr(bond["REDEMPTION"])
    /\ strptime_dmy(bond["REDEMPTION"]).ok

\* C12: when a record of the raw catalog has a redemption date that is not a
\* DD-MM-YYYY date, the load raises and returns no list at all.
C12_UnparseableDateRaises ==
    (pc # "start" /\ pc # "scoring" /\ pc # "returned"
     /\ \E i \in 1..Len(bond_details) : ~ParsesAsDMY(bond_details[i]))
        => (~active_bonds.ok /\ pc = "failed")

\* a load failed on a catalog whose first record parses and redeems later
\* than the margin and whose second record carries the date 30-02-2028
C12_Witness ==
    /\ pc = "failed"
    /\ active_bonds = Raise("ValueError")
    /\ Len(bond_details) >= 2
    /\ ParsesAsDMY(bond_details[1])
    /\ LaterThanMargin(bond_details[1])
    /\ bond_details[2]["REDEMPTION"] = T_D_30_02_2028

\* C13: the loaded list is a subsequence of the raw catalog: its records are
\* the selected fields of raw records taken at strictly increasing positions.
C13_OutputIsSubsequence ==
    Loaded =>
        \E at \in [1..Len(active_bonds.val) -> 1..Len(bond_details)] :
            /\ \A j \in 1..Len(active_bonds.val) :
                  active_bonds.val[j] = Project(bond_details[at[j]])
            /\ \A j \in 1..(Len(active_bonds.val) - 1) : at[j] < at[j + 1]

\* of three raw records the first and the third were retained, in that
\* order, and the second was removed
C13_Witness ==
    /\ Loaded
    /\ Len(bond_details) = 3
    /\ active_bonds.val = <<Project(bond_details[1]), Project(bond_details[3])>>
    /\ Project(bond_details[2]) # Project(bond_details[1])
    /\ Project(bond_details[2]) # Project(bond_details[3])
    /\ Project(bond_details[1]) # Project(bond_details[3])

(***************************************************************************)
(* Coupon payout calculator (backend/genai.py)                             *)
(***************************************************************************)
MaxHorizonYears == 2

T_monthly == <<"m","o","n","t","h","l","y">>
T_quarterly == <<"q","u","a","r","t","e","r","l","y">>
T_semi_annual == <<"s","e","m","i","-","a","n","n","u","a","l">>
T_semi_annual_space == <<"s","e","m","i"," ","a","n","n","u","a","l">>
T_annual == <<"a","n","n","u","a","l">>
T_P_Quarterly == <<"Q","u","a","r","t","e","r","l","y">>
T_P_MONTHLY == <<"M","O","N","T","H","L","Y">>
T_P_Semi_Annual == <<"S","e","m","i","-","A","n","n","u","a","l">>
T_P_Annually == <<"A","n","n","u","a","l","l","y">>
T_P_weekly == <<"w","e","e","k","l","y">>
T_S_iso_date == <<"2","0","2","5","-","0","1","-","0","1">>
T_S_iso_datetime == <<"2","0","2","5","-","0","1","-","0","1","T","0","0",":","0","0",":","0","0">>
T_S_iso_evening == <<"2","0","2","7","-","1","2","-","3","1","T","1","8",":","3","0">>
T_S_dmy == <<"0","1","-","0","2","-","2","0","2","5">>
T_S_dmy_eve == <<"3","1","-","1","2","-","2","0","2","7">>
T_S_mdy == <<"1","2","-","2","5","-","2","0","2","5">>
T_S_slashes == <<"2","0","2","5","/","0","1","/","0","1">>
T_S_Tuesday == <<"T","u","e","s","d","a","y">>
T_S_two_digit_year == <<"2","5","-","1","2","-","2","5">>
T_S_month13 == <<"2","0","2","5","-","1","3","-","0","1">>
T_S_lower_t == <<"2","0","2","5","-","0","1","-","0","1","t","0","0",":","0","0",":","0","0">>
T_Rate_8pct == <<"8","%">>
T_Rate_8_5 == <<"8",".","5">>

\* an error with the value its message shows
RaiseWith(e, shown) == [ok |-> FALSE, val |-> shown, err |-> e]

\* int(x) of a float: the fraction is dropped, toward zero
RTrunc(x) == IF x[1] >= 0 THEN x[1] \div x[2] ELSE -((-x[1]) \div x[2])

\* round(x, ndigits): the nearest multiple of 10^-ndigits, a tie to the even one
round(x, ndigits) ==
    LET scaled == RMul(x, RInt(Pow10(ndigits)))
        a == Abs(scaled[1])
        q == a \div scaled[2]
        r == a % scaled[2]
        m == IF 2 * r > scaled[2] \/ (2 * r = scaled[2] /\ q % 2 = 1) THEN q + 1 ELSE q
    IN  Rat(IF scaled[1] < 0 THEN -m ELSE m, Pow10(ndigits))

\* the date fields of a strptime format with "-" between them
FieldFits(text, kind) ==
    /\ AllDigits(text)
    /\ IF kind = "Y" THEN Len(text) = 4 ELSE Len(text) <= 2

FieldAt(order, kind) == CHOOSE k \in 1..3 : order[k] = kind

\* datetime.strptime(text, format), the format given as its field order:
\* <<"d","m","Y">> is "%d-%m-%Y"
strptime(s, order) ==
    LET f == split_on(s, "-") IN
    IF Len(f) # 3 THEN Raise("ValueError")
    ELSE IF \E k \in 1..3 : ~FieldFits(f[k], order[k]) THEN Raise("ValueError")
    ELSE LET d == DigitsValue(f[FieldAt(order, "d")], 1, 0)
             m == DigitsValue(f[FieldAt(order, "m")], 1, 0)
             y == DigitsValue(f[FieldAt(order, "Y")], 1, 0)
         IN  IF m < 1 \/ m > 12 \/ d < 1 \/ y < 1 THEN Raise("ValueError")
             ELSE IF d > DaysInMonth(y, m) THEN Raise("ValueError")
             ELSE Ok(DateTime(y, m, d, 0))

SecondsPerDay == 86400

\* datetime.fromisoformat(text) for YYYY-MM-DDTHH[:MM[:SS]]
fromisoformat(s) ==
    LET parts == split_on(s, "T") IN
    IF Len(parts) # 2 THEN Raise("ValueError")
    ELSE LET df == split_on(parts[1], "-")
             tf == split_on(parts[2], ":")
         IN  IF Len(df) # 3 \/ Len(tf) > 3 THEN Raise("ValueError")
             ELSE IF ~(AllDigits(df[1]) /\ Len(df[1]) = 4) THEN Raise("ValueError")
             ELSE IF \E k \in 2..3 : ~(AllDigits(df[k]) /\ Len(df[k]) = 2)
                  THEN Raise("ValueError")
             ELSE IF \E k \in 1..Len(tf) : ~(AllDigits(tf[k]) /\ Len(tf[k]) = 2)
                  THEN Raise("ValueError")
             ELSE LET y == DigitsValue(df[1], 1, 0)
                      m == DigitsValue(df[2], 1, 0)
                      d == DigitsValue(df[3], 1, 0)
                      hh == DigitsValue(tf[1], 1, 0)
                      mm == IF Len(tf) >= 2 THEN DigitsValue(tf[2], 1, 0) ELSE 0
                      ss == IF Len(tf) >= 3 THEN DigitsValue(tf[3], 1, 0) ELSE 0
                  IN  IF m < 1 \/ m > 12 \/ d < 1 \/ y < 1 THEN Raise("ValueError")
                      ELSE IF d > DaysInMonth(y, m) THEN Raise("ValueError")
                      ELSE IF hh > 23 \/ mm > 59 \/ ss > 59 THEN Raise("ValueError")
                      ELSE Ok(DateTime(y, m, d,
                                       ((hh * 3600 + mm * 60 + ss) * TicksPerDay)
                                           \div SecondsPerDay))

\* the ValueError raised for a start date: its message shows the text given
StartDateError(start_date) ==
    RaiseWith("ValueError: start_date must be in ISO format or DD-MM-YYYY format", start_date)

\* the formats tried on a start date with "-" and without "T", in order
DashedFormats == << <<"d","m","Y">>, <<"Y","m","d">>, <<"m","d","Y">> >>

RECURSIVE TryFormats(_, _, _)
TryFormats(s, formats, k) ==
    IF k > Len(formats) THEN Raise("ValueError")
    ELSE LET t == strptime(s, formats[k]) IN
         IF t.ok THEN t ELSE TryFormats(s, formats, k + 1)

\* lines 26-43: the start of the schedule as a datetime
ParseStartDate(start_date, now) ==
    IF start_date = None THEN Ok(now)
    ELSE LET parsed == IF contains(start_date, <<"T">>) THEN fromisoformat(start_date)
                       ELSE IF contains(start_date, <<"-">>)
                            THEN TryFormats(start_date, DashedFormats, 1)
                       ELSE Raise("ValueError")
         IN  IF parsed.ok THEN parsed ELSE StartDateError(start_date)

frequency_map ==
    << <<T_monthly, 12>>, <<T_quarterly, 4>>, <<T_semi_annual, 2>>,
       <<T_semi_annual_space, 2>>, <<T_annual, 1>> >>

\* list(frequency_map.keys())
FrequencyKeys == [k \in 1..Len(frequency_map) |-> frequency_map[k][1]]

InvalidFrequencyError == RaiseWith("ValueError: Invalid frequency. Choose from", FrequencyKeys)

\* the frequency looked up as given, without lower()
PaymentsPerYear_Mut(payout_frequency) ==
    IF ~IsStr(payout_frequency) THEN Raise("AttributeError")
    ELSE IF \E k \in 1..Len(frequency_map) : frequency_map[k][1] = payout_frequency
         THEN Ok(frequency_map[CHOOSE k \in 1..Len(frequency_map) :
                                   frequency_map[k][1] = payout_frequency][2])
         ELSE InvalidFrequencyError

\* lines 53-57: payments_per_year of a payout frequency
PaymentsPerYear(payout_frequency) ==
    IF ~IsStr(payout_frequency) THEN Raise("AttributeError")
    ELSE LET payout_frequency_lower == lower(payout_frequency) IN
         IF \E k \in 1..Len(frequency_map) : frequency_map[k][1] = payout_frequency_lower
         THEN Ok(frequency_map[CHOOSE k \in 1..Len(frequency_map) :
                                   frequency_map[k][1] = payout_frequency_lower][2])
         ELSE InvalidFrequencyError

\* a rate argument is a float or a str
Num(r) == [str |-> FALSE, num |-> r, text |-> <<>>]
Str(t) == [str |-> TRUE, num |-> Rat(0, 1), text |-> t]

\* str.replace("%", "")
RECURSIVE RemoveChar(_, _, _)
RemoveChar(s, c, i) ==
    IF i > Len(s) THEN <<>>
    ELSE (IF s[i] = c THEN <<>> ELSE <<s[i]>>) \o RemoveChar(s, c, i + 1)

\* digits with an optional decimal part, as float(text) accepts them here
IsFloatText(t) ==
    LET f == split_on(t, ".") IN
    \/ Len(f) = 1 /\ AllDigits(f[1])
    \/ Len(f) = 2 /\ AllDigits(f[1]) /\ AllDigits(f[2])

PercentDivisor == 100

\* a numeric rate of 1 or more taken as a percentage
NormalizeRate_Mut(annual_coupon_rate) ==
    IF annual_coupon_rate.str
    THEN IF contains(annual_coupon_rate.text, <<"%">>)
         THEN LET text == RemoveChar(annual_coupon_rate.text, "%", 1) IN
              IF IsFloatText(text) THEN Ok(RDiv(float(text), RInt(PercentDivisor)))
              ELSE Raise("ValueError")
         ELSE Raise("TypeError")
    ELSE IF RLeq(RInt(1), annual_coupon_rate.num)
         THEN Ok(RDiv(annual_coupon_rate.num, RInt(PercentDivisor)))
         ELSE Ok(annual_coupon_rate.num)

\* lines 60-63: the rate as a fraction
NormalizeRate(annual_coupon_rate) ==
    IF annual_coupon_rate.str
    THEN IF contains(annual_coupon_rate.text, <<"%">>)
         THEN LET text == RemoveChar(annual_coupon_rate.text, "%", 1) IN
              IF IsFloatText(text) THEN Ok(RDiv(float(text), RInt(PercentDivisor)))
              ELSE Raise("ValueError")
         ELSE Raise("TypeError")
    ELSE IF RLess(RInt(1), annual_coupon_rate.num)
         THEN Ok(RDiv(annual_coupon_rate.num, RInt(PercentDivisor)))
         ELSE Ok(annual_coupon_rate.num)

DaysPerYear == 365

\* the whole days of one interval multiplied by the payment number
PayoutOffsetDays_Mut(days_between_payments, payment_number) ==
    RTrunc(days_between_payments) * payment_number

\* int(days_between_payments * (i + 1)), i + 1 being the payment number
PayoutOffsetDays(days_between_payments, payment_number) ==
    RTrunc(RMul(days_between_payments, RInt(payment_number)))

\* the payment rounded to cents before it is multiplied
TotalCouponIncome_Mut(payout_per_payment, total_payments) ==
    RMul(round(payout_per_payment, 2), RInt(total_payments))

\* payout_per_payment * total_payments
TotalCouponIncome(payout_per_payment, total_payments) ==
    RMul(payout_per_payment, RInt(total_payments))

\* the return over the whole horizon, not divided by its years
EffectiveAnnualReturn_Mut(total_coupon_income, investment_amount, horizon_years) ==
    RDiv(total_coupon_income, investment_amount)

\* (total_coupon_income / investment_amount) / horizon_years
EffectiveAnnualReturn(total_coupon_income, investment_amount, horizon_years) ==
    RDiv(RDiv(total_coupon_income, investment_amount), horizon_years)

\* date.fromordinal: the year is searched upward from a lower estimate
RECURSIVE YearOfOrdinal(_, _)
YearOfOrdinal(n, y) == IF DaysBeforeYear(y + 1) >= n THEN y ELSE YearOfOrdinal(n, y + 1)

RECURSIVE MonthOfDay(_, _, _)
MonthOfDay(y, dayOfYear, m) ==
    IF dayOfYear <= DaysBeforeMonth(y, m) + DaysInMonth(y, m) THEN m
    ELSE MonthOfDay(y, dayOfYear, m + 1)

FromOrdinal(n) ==
    LET y == YearOfOrdinal(n, (n \div 366) + 1)
        m == MonthOfDay(y, n - DaysBeforeYear(y), 1)
    IN  [year |-> y, month |-> m, day |-> n - DaysBeforeYear(y) - DaysBeforeMonth(y, m)]

\* a number written with at least width digits, zeros in front
RECURSIVE ZeroPadded(_, _)
ZeroPadded(n, width) ==
    IF width <= 1 /\ n < 10 THEN <<Digits[n + 1]>>
    ELSE Append(ZeroPadded(n \div 10, width - 1), Digits[(n % 10) + 1])

\* datetime.strftime("%Y-%m-%d")
strftime_ymd(t) ==
    LET date == FromOrdinal(t \div TicksPerDay) IN
    ZeroPadded(date.year, 4) \o <<"-">> \o ZeroPadded(date.month, 2)
        \o <<"-">> \o ZeroPadded(date.day, 2)

calculate_coupon_payout(investment_amount, annual_coupon_rate, horizon_years, payout_frequency, start_date, now) ==
    LET start == ParseStartDate(start_date, now) IN
    IF ~start.ok THEN start ELSE
    LET ppy == PaymentsPerYear(payout_frequency) IN
    IF ~ppy.ok THEN ppy ELSE
    LET payments_per_year == ppy.val
        total_payments == RTrunc(RMul(horizon_years, RInt(payments_per_year)))
        rate == NormalizeRate(annual_coupon_rate)
    IN
    IF ~rate.ok THEN rate ELSE
    LET payout_per_payment == RDiv(RMul(rate.val, investment_amount), RInt(payments_per_year))
        total_coupon_income == TotalCouponIncome(payout_per_payment, total_payments)
        days_between_payments == Rat(DaysPerYear, payments_per_year)
        payout_schedule ==
            [n \in 1..total_payments |->
                [payment_number |-> n,
                 date |-> strftime_ymd(start.val
                             + timedelta(PayoutOffsetDays(days_between_payments, n))),
                 amount |-> round(payout_per_payment, 2)]]
    IN
    IF investment_amount[1] = 0 \/ horizon_years[1] = 0 THEN Raise("ZeroDivisionError")
    ELSE Ok([investment_amount |-> investment_amount,
             annual_coupon_rate |-> rate.val,
             payout_frequency |-> payout_frequency,
             payments_per_year |-> payments_per_year,
             payout_per_payment |-> round(payout_per_payment, 2),
             total_payments |-> total_payments,
             total_coupon_income |-> round(total_coupon_income, 2),
             effective_annual_return |->
                 round(EffectiveAnnualReturn(total_coupon_income, investment_amount,
                                             horizon_years), 4),
             payout_schedule |-> payout_schedule])

(***************************************************************************)
(* The payout calculator called on drawn arguments                         *)
(***************************************************************************)
InvestmentAmounts == {Rat(100000, 1), Rat(1000, 1), Rat(1, 1), Rat(0, 1)}
CouponRates ==
    {Num(Rat(8, 1)), Num(Rat(7, 100)), Num(Rat(1, 1)), Num(Rat(25, 2)), Num(Rat(1, 2)),
     Num(Rat(0, 1)), Str(T_Rate_8pct), Str(T_Rate_8_5)}
HorizonYears ==
    {Rat(k, 2) : k \in 0..(2 * MaxHorizonYears)} \cup {Rat(1, 3), Rat(5, 4), Rat(-1, 2)}
PayoutFrequencies ==
    {T_monthly, T_P_MONTHLY, T_P_Quarterly, T_semi_annual, T_P_Semi_Annual,
     T_semi_annual_space, T_annual, T_P_Annually, T_P_weekly, None}
StartDates ==
    {None, T_S_iso_date, T_S_iso_datetime, T_S_iso_evening, T_S_dmy, T_S_dmy_eve,
     T_S_mdy, T_S_slashes, T_S_Tuesday, T_S_two_digit_year, T_S_month13, T_S_lower_t}

InitPayout ==
    /\ bond_details = <<>>
    /\ current_date \in {[year |-> 2027, month |-> 3, day |-> 1, tick |-> TicksPerDay - 1]}
    /\ active_bonds = Unset
    /\ user_preferences = NoPrefs
    /\ recommendations = Unset
    /\ reranked = Unset
    /\ call = NoCall
    /\ result = Unset
    /\ pc = "payout"
    /\ FormIdle /\ GraphIdle

CallCalculateCouponPayout ==
    /\ pc = "payout"
    /\ \E amount \in InvestmentAmounts, rate \in CouponRates, horizon \in HorizonYears,
          frequency \in PayoutFrequencies, start \in StartDates :
          /\ call' = [fn |-> "calculate_coupon_payout",
                      args |-> <<amount, rate, horizon, frequency, start>>]
          /\ result' = calculate_coupon_payout(amount, rate, horizon, frequency, start,
                                               Now(current_date))
    /\ pc' = "returned"
    /\ UNCHANGED <<catalogVars, formVars, graphVars>>

NextPayout == CallCalculateCouponPayout

SpecPayout == InitPayout /\ [][NextPayout]_vars

(***************************************************************************)
(* Claims about the payout calculator                                      *)
(***************************************************************************)
PayoutReturned == Called("calculate_coupon_payout") /\ result.ok
ArgAmount == call.args[1]
ArgRate == call.args[2]
ArgHorizon == call.args[3]
ArgFrequency == call.args[4]
ArgStart == call.args[5]

Floor(x) == x[1] \div x[2]
Positive(x) == x[1] > 0

\* the calendar day the schedule starts on, as a day number
StartDay == ParseStartDate(ArgStart, Now(current_date)).val \div TicksPerDay

\* the day number a "%Y-%m-%d" text names
DayOfText(text) == strptime(text, <<"Y", "m", "d">>).val \div TicksPerDay

\* C14: for a horizon within the contract (horizon_years > 0) the returned
\* schedule has exactly total_payments = floor(horizon_years * payments_per_year)
\* entries; entry i has payment_number i and the date that lies
\* floor(i * 365 / payments_per_year) days after the start date, so the dates
\* are strictly increasing.
C14_ScheduleCountAndDates ==
    (PayoutReturned /\ Positive(ArgHorizon)) =>
        LET r == result.val
            n == Floor(RMul(ArgHorizon, RInt(r.payments_per_year)))
        IN  /\ r.total_payments = n
            /\ Len(r.payout_schedule) = n
            /\ \A i \in 1..n :
                  /\ r.payout_schedule[i].payment_number = i
                  /\ strptime(r.payout_schedule[i].date, <<"Y", "m", "d">>).ok
                  /\ DayOfText(r.payout_schedule[i].date)
                        = StartDay + ((i * DaysPerYear) \div r.payments_per_year)
            /\ \A i \in 1..(n - 1) :
                  DayOfText(r.payout_schedule[i].date)
                      < DayOfText(r.payout_schedule[i + 1].date)

\* a monthly schedule of fifteen payments from a horizon of a year and a
\* quarter, started on New Year's Eve and passing a leap day
C14_Witness ==
    /\ PayoutReturned
    /\ ArgHorizon = Rat(5, 4)
    /\ ArgStart = T_S_dmy_eve
    /\ result.val.payments_per_year = 12
    /\ Len(result.val.payout_schedule) = 15
    /\ result.val.payout_schedule[2].date
          = <<"2", "0", "2", "8", "-", "0", "2", "-", "2", "9">>
    /\ result.val.payout_schedule[15].payment_number = 15

\* the arguments are within the contract: a positive amount and horizon
WithinContract == Positive(ArgAmount) /\ Positive(ArgHorizon)

RECURSIVE SumAmounts(_, _)
SumAmounts(schedule, i) ==
    IF i > Len(schedule) THEN RInt(0)
    ELSE RAdd(schedule[i].amount, SumAmounts(schedule, i + 1))

\* the payment before rounding, from the reported rate and the amount given
UnroundedPayment == RDiv(RMul(result.val.annual_coupon_rate, ArgAmount),
                         RInt(result.val.payments_per_year))

\* C15 as stated: the total income reported is the per-payment amount rounded
\* to 2 decimals multiplied by total_payments, which is the sum of the amounts
\* listed in the schedule.
C15_TotalFromRoundedPayment ==
    (PayoutReturned /\ WithinContract) =>
        /\ result.val.total_coupon_income
              = RMul(result.val.payout_per_payment, RInt(result.val.total_payments))
        /\ result.val.total_coupon_income = SumAmounts(result.val.payout_schedule, 1)

\* C15: the total income reported is the unrounded per-payment amount
\* multiplied by total_payments and then rounded to 2 decimals, while every
\* listed amount and the reported per-payment amount are the payment rounded
\* to 2 decimals.
C15_TotalFromUnroundedPayment ==
    PayoutReturned =>
        /\ result.val.total_coupon_income
              = round(RMul(UnroundedPayment, RInt(result.val.total_payments)), 2)
        /\ result.val.payout_per_payment = round(UnroundedPayment, 2)
        /\ \A i \in 1..Len(result.val.payout_schedule) :
              result.val.payout_schedule[i].amount = round(UnroundedPayment, 2)

\* 1000 at 7% paid monthly for a year: twelve payments listed as 5.83 sum to
\* 69.96 and the total reported is 70
C15_Witness ==
    /\ PayoutReturned
    /\ ArgAmount = Rat(1000, 1)
    /\ ArgRate = Num(Rat(7, 100))
    /\ result.val.total_payments = 12
    /\ result.val.payout_per_payment = Rat(583, 100)
    /\ SumAmounts(result.val.payout_schedule, 1) = Rat(6996, 100)
    /\ result.val.total_coupon_income = Rat(70, 1)

\* a call whose start date is accepted and whose frequency is a string
FrequencyDecides ==
    /\ Called("calculate_coupon_payout")
    /\ ParseStartDate(ArgStart, Now(current_date)).ok
    /\ IsStr(ArgFrequency)

InvalidFrequency == ~result.ok /\ result.err = "ValueError: Invalid frequency. Choose from"

FourFrequencies ==
    {<<T_monthly, 12>>, <<T_quarterly, 4>>, <<T_semi_annual, 2>>, <<T_annual, 1>>}
FiveFrequencies == FourFrequencies \cup {<<T_semi_annual_space, 2>>}

\* the frequency, compared without case, is one of the accepted pairs and the
\* result, if one is returned, carries its number; or it is none of them and
\* the call fails with the invalid-frequency error listing the accepted names
MappedOrRejected(accepted) ==
    IF \E p \in accepted : p[1] = lower(ArgFrequency)
    THEN /\ ~InvalidFrequency
         /\ result.ok => \E p \in accepted : /\ p[1] = lower(ArgFrequency)
                                             /\ result.val.payments_per_year = p[2]
    ELSE /\ InvalidFrequency
         /\ {result.val[k] : k \in 1..Len(result.val)} = {p[1] : p \in accepted}

\* C16 as stated: monthly, quarterly, semi-annual and annual (in any case) map
\* to 12, 4, 2 and 1 payments per year, and any other frequency string fails
\* with the invalid-frequency error listing the accepted values.
C16_FourFrequencies == FrequencyDecides => MappedOrRejected(FourFrequencies)

\* C16: when the start date is accepted, monthly, quarterly, semi-annual,
\* "semi annual" written with a space, and annual (in any case) map to 12, 4,
\* 2, 2 and 1 payments per year; any other frequency string fails with the
\* invalid-frequency error, which lists those five names, and nothing is
\* returned.
C16_FiveFrequencies == FrequencyDecides => MappedOrRejected(FiveFrequencies)

\* "weekly" is rejected and the error lists five names, "semi annual" among them
C16_Witness ==
    /\ FrequencyDecides
    /\ ArgFrequency = T_P_weekly
    /\ InvalidFrequency
    /\ Len(result.val) = 5
    /\ \E k \in 1..Len(result.val) : result.val[k] = T_semi_annual_space

StartDateRejected ==
    /\ ~result.ok
    /\ result.err = "ValueError: start_date must be in ISO format or DD-MM-YYYY format"

IsIsoDateTime(s) == fromisoformat(s).ok
IsIsoDate(s) == ~contains(s, <<"T">>) /\ strptime(s, <<"Y", "m", "d">>).ok
IsDayMonthYear(s) == ~contains(s, <<"T">>) /\ strptime(s, <<"d", "m", "Y">>).ok

\* C17: a start-date string is accepted only if it is an ISO date-time, an
\* ISO date (YYYY-MM-DD) or a DD-MM-YYYY date; every other string is rejected
\* with an error naming the offending string and nothing is returned.
C17_OnlyIsoOrDayMonthYear ==
    (Called("calculate_coupon_payout") /\ ArgStart # None) =>
        IF IsIsoDateTime(ArgStart) \/ IsIsoDate(ArgStart) \/ IsDayMonthYear(ArgStart)
        THEN ~StartDateRejected
        ELSE StartDateRejected /\ result.val = ArgStart

\* horizon_years * payments_per_year is a whole number
WholePayments ==
    LET n == RMul(ArgHorizon, RInt(result.val.payments_per_year)) IN n[2] = 1

\* C18 as stated: with a whole number of payments the total income reported
\* is rate * amount * horizon_years and the effective annual return is the
\* normalized rate; in general the effective return is
\* (total income / amount) / horizon_years.
C18_ExactTotals ==
    (PayoutReturned /\ WithinContract) =>
        LET r == result.val IN
        /\ WholePayments =>
              /\ r.total_coupon_income
                    = RMul(RMul(r.annual_coupon_rate, ArgAmount), ArgHorizon)
              /\ r.effective_annual_return = r.annual_coupon_rate
        /\ r.effective_annual_return
              = RDiv(RDiv(r.total_coupon_income, ArgAmount), ArgHorizon)

\* C18: with a whole number of payments the total income reported is
\* rate * amount * horizon_years rounded to 2 decimals and the effective
\* annual return is the normalized rate rounded to 4 decimals; in general the
\* effective return is (total income before rounding / amount) / horizon_years
\* rounded to 4 decimals.
C18_RoundedTotals ==
    PayoutReturned =>
        LET r == result.val IN
        /\ WholePayments =>
              /\ r.total_coupon_income
                    = round(RMul(RMul(r.annual_coupon_rate, ArgAmount), ArgHorizon), 2)
              /\ r.effective_annual_return = round(r.annual_coupon_rate, 4)
        /\ r.effective_annual_return
              = round(RDiv(RDiv(RMul(UnroundedPayment, RInt(r.total_payments)),
                                ArgAmount), ArgHorizon), 4)

\* 100000 at a rate given as 8.0 for two years, paid quarterly: eight
\* payments of 2000, total 16000, return 0.08
C18_Witness ==
    /\ PayoutReturned
    /\ ArgAmount = Rat(100000, 1)
    /\ ArgRate = Num(Rat(8, 1))
    /\ ArgHorizon = Rat(2, 1)
    /\ ArgFrequency = T_P_Quarterly
    /\ result.val.total_payments = 8
    /\ result.val.payout_per_payment = Rat(2000, 1)
    /\ result.val.total_coupon_income = Rat(16000, 1)
    /\ result.val.effective_annual_return = Rat(8, 100)

\* C19: a numeric annual rate r greater than 1 is used as r / 100 and a
\* numeric rate r with 0 <= r <= 1 is used unchanged (a rate of exactly 1 is
\* the fraction 1, not 1%); the annual_coupon_rate reported is the normalized
\* value, and the payment is computed from it.
C19_RateNormalization ==
    (PayoutReturned /\ ~ArgRate.str) =>
        LET r == ArgRate.num
            used == IF RLess(RInt(1), r) THEN RDiv(r, RInt(100)) ELSE r
        IN  RLeq(RInt(0), r) =>
              /\ result.val.annual_coupon_rate = used
              /\ result.val.payout_per_payment
                    = round(RDiv(RMul(used, ArgAmount),
                                 RInt(result.val.payments_per_year)), 2)

\* a rate of exactly 1 on 1000 paid annually: reported as 1, payment 1000
C19_Witness ==
    /\ PayoutReturned
    /\ ArgRate = Num(Rat(1, 1))
    /\ ArgAmount = Rat(1000, 1)
    /\ result.val.payments_per_year = 1
    /\ result.val.annual_coupon_rate = Rat(1, 1)
    /\ result.val.payout_per_payment = Rat(1000, 1)

MaxRequests == 2
MinRedemptionYear == 2024

T_V_7_5 == <<"7",".","5">>
T_V_0 == <<"0">>
T_V_minus1 == <<"-","1">>
T_V_abc == <<"a","b","c">>
T_V_2023 == <<"2","0","2","3">>
T_V_2030 == <<"2","0","3","0">>
T_V_20x == <<"2","0","x">>
T_Advice == <<"<","a","n","a","l","y","s","i","s",">","B","u","y","<","/","a","n","a","l","y","s","i","s",">">>
T_NoBonds == <<"N","o"," ","a","c","t","i","v","e"," ","b","o","n","d","s"," ","f","o","u","n","d">>
T_Boom == <<"b","o","o","m">>

\* float(text) of a decimal number with an optional minus sign
float_of(value) ==
    LET negative == Len(value) > 0 /\ value[1] = "-"
        digits == IF negative THEN SubSeq(value, 2, Len(value)) ELSE value
    IN  IF ~IsFloatText(digits) THEN Raise("ValueError")
        ELSE Ok(IF negative THEN RSub(RInt(0), float(digits)) ELSE float(digits))

\* str(n) of a number that is not negative
str(n) == ZeroPadded(n, 1)

\* the event handler that ran last
Event(name, value) == [fn |-> name, args |-> <<value>>]

\* lines 24-28
handle_coupon_rate_change(value) ==
    LET parsed == float_of(value) IN
    /\ state' = IF parsed.ok THEN [state EXCEPT !.coupon_rate = parsed.val] ELSE state
    /\ call' = Event("handle_coupon_rate_change", value)

\* lines 30-34
handle_redemption_year_change(value) ==
    LET parsed == int(value) IN
    /\ state' = IF parsed.ok THEN [state EXCEPT !.redemption_year = parsed.val] ELSE state
    /\ call' = Event("handle_redemption_year_change", value)

\* the setters the selects are bound to
set_rating(value) ==
    /\ state' = [state EXCEPT !.rating = value]
    /\ call' = Event("set_rating", value)

set_interest_frequency(value) ==
    /\ state' = [state EXCEPT !.interest_frequency = value]
    /\ call' = Event("set_interest_frequency", value)

\* lines 92-99
refresh ==
    /\ state' = [state EXCEPT !.coupon_rate = Rat(0, 1), !.rating = T_Empty,
                              !.interest_frequency = T_Empty, !.redemption_year = 2024,
                              !.analysis = T_Empty, !.loading_message = T_Analyzing]
    /\ call' = Event("refresh", T_Empty)

\* a coupon rate below 0 refused, 0 let through
ValidationError_Mut(s) ==
    IF RLess(s.coupon_rate, RInt(0)) THEN E_Coupon
    ELSE IF s.rating = T_Empty THEN E_Rating
    ELSE IF s.interest_frequency = T_Empty THEN E_Frequency
    ELSE IF s.redemption_year < MinRedemptionYear THEN E_Year
    ELSE None

\* lines 39-50: the message of the first check that fails, None when all pass
ValidationError(s) ==
    IF RLeq(s.coupon_rate, RInt(0)) THEN E_Coupon
    ELSE IF s.rating = T_Empty THEN E_Rating
    ELSE IF s.interest_frequency = T_Empty THEN E_Frequency
    ELSE IF s.redemption_year < MinRedemptionYear THEN E_Year
    ELSE None

\* lines 61-66: the body posted
RequestBody(s) ==
    [coupon_rate |-> s.coupon_rate, rating |-> s.rating,
     interest_frequency |-> s.interest_frequency, redemption_year |-> s.redemption_year]

\* what awaiting the post can bring: a response with status 200 and a JSON
\* object, or an exception
Response(has_message, message, has_analysis, analysis) ==
    [raised |-> "", status_code |-> 200, has_message |-> has_message, message |-> message,
     has_analysis |-> has_analysis, analysis |-> analysis, text |-> T_Empty]
Raised(exception, status_code, text) ==
    [raised |-> exception, status_code |-> status_code, has_message |-> FALSE,
     message |-> T_Empty, has_analysis |-> FALSE, analysis |-> T_Empty, text |-> text]

Outcomes ==
    {Response(FALSE, T_Empty, TRUE, T_Advice), Response(TRUE, T_NoBonds, FALSE, T_Empty),
     Response(TRUE, T_NoBonds, TRUE, T_Empty), Response(TRUE, T_NoBonds, TRUE, T_Advice),
     Response(FALSE, T_Empty, FALSE, T_Empty), Response(FALSE, T_Empty, TRUE, T_Empty),
     Raised("TimeoutException", 0, T_Empty), Raised("ConnectError", 0, T_Empty),
     Raised("HTTPStatusError", 422, T_Empty), Raised("HTTPStatusError", 500, T_Empty),
     Raised("HTTPStatusError", 404, T_Empty), Raised("Exception", 0, T_Boom)}

\* the connection error left without a message
ExceptionMessage_Mut(outcome, analysis) ==
    IF outcome.raised = "TimeoutException" THEN E_Timeout
    ELSE IF outcome.raised = "HTTPStatusError"
         THEN IF outcome.status_code = 422 THEN E_422
              ELSE IF outcome.status_code = 500 THEN E_500
              ELSE E_Status \o str(outcome.status_code)
    ELSE IF outcome.raised = "ConnectError" THEN analysis
    ELSE E_Unexpected \o outcome.text

\* lines 76-88: the analysis the except clause that catches the exception assigns
ExceptionMessage(outcome, analysis) ==
    IF outcome.raised = "TimeoutException" THEN E_Timeout
    ELSE IF outcome.raised = "HTTPStatusError"
         THEN IF outcome.status_code = 422 THEN E_422
              ELSE IF outcome.status_code = 500 THEN E_500
              ELSE E_Status \o str(outcome.status_code)
    ELSE IF outcome.raised = "ConnectError" THEN E_Connect
    ELSE E_Unexpected \o outcome.text

\* lines 71-75: the analysis assigned from the JSON object of the response
ResponseAnalysis(data) ==
    IF data.has_message /\ ~(data.has_analysis /\ data.analysis # T_Empty)
    THEN T_NoResults \o data.message
    ELSE IF data.has_analysis THEN data.analysis ELSE T_NoAnalysisFound

\* get_recommendations, lines 36-59: the checks; when they pass the request is
\* posted and the handler waits for the answer
GetRecommendations ==
    /\ handler = "idle"
    /\ call' = Event("get_recommendations", T_Empty)
    /\ IF ValidationError(state) # None
       THEN /\ state' = [state EXCEPT !.analysis = ValidationError(state)]
            /\ UNCHANGED <<handler, requests>>
       ELSE /\ Len(requests) < MaxRequests
            /\ state' = [state EXCEPT !.processing = TRUE, !.analysis = T_Empty,
                                      !.loading_message = T_AiAnalyzing]
            /\ requests' = Append(requests, RequestBody(state))
            /\ handler' = "awaiting"
    /\ UNCHANGED <<catalogVars, result, pc, graphVars>>

\* lines 59-75: the post returns or raises; a response with status 200 is
\* read and its analysis assigned, then the client is closed
PostResolves ==
    /\ handler = "awaiting"
    /\ \E outcome \in Outcomes :
          /\ result' = outcome
          /\ state' = IF outcome.raised = ""
                      THEN [state EXCEPT !.loading_message = T_Processing,
                                         !.analysis = ResponseAnalysis(outcome)]
                      ELSE state
    /\ handler' = "closing"
    /\ UNCHANGED <<catalogVars, call, pc, requests, graphVars>>

\* lines 76-90: the except clause of an exception, and finally
HandlerFinishes ==
    /\ handler = "closing"
    /\ state' = [state EXCEPT
                   !.analysis = IF result.raised = "" THEN @
                                ELSE ExceptionMessage(result, @),
                   !.processing = FALSE]
    /\ handler' = "idle"
    /\ UNCHANGED <<catalogVars, scoreVars, pc, requests, graphVars>>

CouponInputs == {T_V_7_5, T_V_0, T_V_minus1, T_V_abc}
YearInputs == {T_V_2023, T_V_2030, T_V_20x}

\* an event of the form other than the request; the handlers of one session
\* run one at a time
FormEvent ==
    /\ handler = "idle"
    /\ \/ \E value \in CouponInputs : handle_coupon_rate_change(value)
       \/ \E value \in YearInputs : handle_redemption_year_change(value)
       \/ set_rating(T_AA)
       \/ set_interest_frequency(T_F_Quarterly)
       \/ refresh
    /\ UNCHANGED <<catalogVars, result, pc, handler, requests, graphVars>>

InitForm ==
    /\ bond_details = <<>>
    /\ current_date = [year |-> 2027, month |-> 3, day |-> 1, tick |-> 0]
    /\ active_bonds = Unset
    /\ user_preferences = NoPrefs
    /\ recommendations = Unset
    /\ reranked = Unset
    /\ call = NoCall
    /\ result = Unset
    /\ pc = "form"
    /\ FormIdle /\ GraphIdle

NextForm == FormEvent \/ GetRecommendations \/ PostResolves \/ HandlerFinishes

\* the post has a timeout, so a request waited for is answered or fails
SpecForm ==
    InitForm /\ [][NextForm]_vars /\ WF_vars(PostResolves) /\ WF_vars(HandlerFinishes)

(***************************************************************************)
(* Claims about the form                                                   *)
(***************************************************************************)
T_ErrorPrefix == <<"E","r","r","o","r",":">>

\* preferences the scoring engine must not be given
InvalidPreference(p) ==
    \/ RLeq(p.coupon_rate, RInt(0))
    \/ p.rating = T_Empty
    \/ p.interest_frequency = T_Empty
    \/ p.redemption_year < 2024

\* a step in which get_recommendations is started
RequestStarted == handler = "idle" /\ call'.fn = "get_recommendations"

\* C21: an invalid preference never reaches the scoring engine from the form:
\* no body posted carries one, and when coupon_rate <= 0 (or the rating or the
\* frequency is empty, or redemption_year < 2024) get_recommendations posts
\* nothing, sets analysis to a message starting with "Error:" and leaves
\* processing False.
C21_InvalidPreferenceNotSent ==
    /\ [](\A i \in 1..Len(requests) : ~InvalidPreference(requests[i]))
    /\ [][(RequestStarted /\ InvalidPreference(state)) =>
             /\ requests' = requests
             /\ startswith(state'.analysis, T_ErrorPrefix)
             /\ ~state.processing /\ ~state'.processing
             /\ handler' = "idle"]_vars

\* the request pressed with a coupon rate of -1 and the other fields filled
\* in: the message about the coupon rate is shown and nothing was posted
C21_Witness ==
    /\ call.fn = "get_recommendations"
    /\ handler = "idle"
    /\ state.coupon_rate = Rat(-1, 1)
    /\ state.rating = T_AA /\ state.interest_frequency = T_F_Quarterly
    /\ state.redemption_year = 2030
    /\ state.analysis = E_Coupon
    /\ ~state.processing
    /\ requests = <<>>

\* a request is in flight: posted and its handler not finished
InFlight == handler \in {"awaiting", "closing"}

\* the analysis a path of the handler leaves for what the post brought
AssignedFor(outcome, analysis) ==
    IF outcome.raised # "" THEN startswith(analysis, T_ErrorPrefix)
    ELSE IF outcome.has_message /\ (~outcome.has_analysis \/ outcome.analysis = T_Empty)
         THEN analysis = T_NoResults \o outcome.message
    ELSE IF outcome.has_analysis THEN analysis = outcome.analysis
    ELSE analysis = T_NoAnalysisFound

\* C24: processing is True only while a validated get_recommendations request
\* is in flight; it becomes True, with analysis cleared, only in the step that
\* posts a request with valid preferences; it becomes False only when the
\* handler finishes, with analysis assigned by the path taken (success,
\* no-results message, timeout, HTTP status error, connection error, any
\* other exception); and once True it becomes False again.
C24_ProcessingWhileInFlight ==
    /\ [](state.processing <=> InFlight)
    /\ [][(~state.processing /\ state'.processing) =>
             /\ ~InvalidPreference(state)
             /\ state'.analysis = T_Empty
             /\ requests' = Append(requests, RequestBody(state))]_vars
    /\ [][(state.processing /\ ~state'.processing) =>
             /\ handler = "closing" /\ handler' = "idle"
             /\ AssignedFor(result, state'.analysis)]_vars
    /\ (state.processing ~> ~state.processing)

\* a request that ran into a connection error: the handler has finished,
\* the message about the server is shown and processing is False again
C24_Witness ==
    /\ handler = "idle"
    /\ call.fn = "get_recommendations"
    /\ Len(requests) = 1
    /\ result.raised = "ConnectError"
    /\ state.analysis = E_Connect
    /\ ~state.processing

(***************************************************************************)
(* The narrative graph of get_genai_response (backend/genai.py)            *)
(***************************************************************************)
MaxToolCalls == 2
MaxLlmSteps == 3

T_semin_annual == <<"s","e","m","i","n"," ","a","n","n","u","a","l">>
T_ToolName == <<"c","a","l","c","u","l","a","t","e","_","c","o","u","p","o","n","_","p","a","y","o","u","t">>
T_OtherTool == <<"s","e","a","r","c","h","_","b","o","n","d","s">>
T_Advisor == <<"Y","o","u"," ","a","r","e"," ","a"," ","f","i","n","a","n","c","i","a","l"," ","a","d","v","i","s","o","r">>
T_Prompt == <<"Y","o","u"," ","a","r","e"," ","a","n"," ","i","n","v","e","s","t","m","e","n","t"," ","a","d","v","i","s","o","r">>
T_Answer == <<"<","a","n","a","l","y","s","i","s",">","S","u","i","t","a","b","l","e","<","/","a","n","a","l","y","s","i","s",">">>

\* the messages; content of a ToolMessage is str(result), kept as the result
SystemMessage(content) ==
    [type |-> "system", content |-> content, tool_calls |-> <<>>, tool_call_id |-> <<>>]
HumanMessage(content) ==
    [type |-> "human", content |-> content, tool_calls |-> <<>>, tool_call_id |-> <<>>]
AIMessage(content, tool_calls) ==
    [type |-> "ai", content |-> content, tool_calls |-> tool_calls, tool_call_id |-> <<>>]
ToolMessage(tool_call_id, content) ==
    [type |-> "tool", content |-> content, tool_calls |-> <<>>, tool_call_id |-> tool_call_id]

\* the arguments of a tool call
ToolArgs(payout_frequency) ==
    [investment_amount |-> Rat(100000, 1), annual_coupon_rate |-> Num(Rat(8, 1)),
     horizon_years |-> Rat(1, 1), payout_frequency |-> payout_frequency,
     start_date |-> None]

\* the tool calls a model may ask for: the payout tool with a frequency it
\* knows, the payout tool with the "semin annual" of the prompt, another tool
ToolCallKinds ==
    {[name |-> T_ToolName, args |-> ToolArgs(T_quarterly)],
     [name |-> T_ToolName, args |-> ToolArgs(T_semin_annual)],
     [name |-> T_OtherTool, args |-> ToolArgs(T_quarterly)]}

\* the tool calls of one response, the i-th with the id <<message number, i>>
ToolCallLists(message_number) ==
    UNION {
      { [i \in 1..n |-> [name |-> kinds[i].name, args |-> kinds[i].args,
                         id |-> <<message_number, i>>]] :
          kinds \in [1..n -> ToolCallKinds] } : n \in 0..MaxToolCalls }

\* what llm_with_tools.invoke may answer as message number message_number
Responses(message_number) ==
    { AIMessage(IF calls = <<>> THEN T_Answer ELSE T_Empty, calls) :
        calls \in ToolCallLists(message_number) }

\* hasattr(last_msg, "tool_calls")
HasToolCalls(msg) == msg.type = "ai"

\* the tool node entered also for an empty list of tool calls
should_continue_Mut(msgs) ==
    LET last_msg == msgs[Len(msgs)] IN
    IF HasToolCalls(last_msg) THEN "tool" ELSE "END"

\* lines 129-133
should_continue(msgs) ==
    LET last_msg == msgs[Len(msgs)] IN
    IF HasToolCalls(last_msg) /\ last_msg.tool_calls # <<>> THEN "tool" ELSE "END"

\* the day and time the graph runs at
GraphDate == [year |-> 2027, month |-> 3, day |-> 1, tick |-> 0]

\* calculate_coupon_payout.invoke(args)
InvokeTool(args, now) ==
    calculate_coupon_payout(args.investment_amount, args.annual_coupon_rate,
                            args.horizon_years, args.payout_frequency, args.start_date, now)

\* every tool call answered, whatever its name
IsPayoutCall_Mut(tool_call) == TRUE

\* line 113
IsPayoutCall(tool_call) == tool_call.name = T_ToolName

\* lines 112-121: the loop over the tool calls from the k-th on
RECURSIVE AnswerToolCalls(_, _, _, _)
AnswerToolCalls(tool_calls, k, new_messages, now) ==
    IF k > Len(tool_calls) THEN Ok(new_messages)
    ELSE IF IsPayoutCall(tool_calls[k])
         THEN LET res == InvokeTool(tool_calls[k].args, now) IN
              IF ~res.ok THEN res
              ELSE AnswerToolCalls(tool_calls, k + 1,
                                   Append(new_messages,
                                          ToolMessage(tool_calls[k].id, res.val)), now)
    ELSE AnswerToolCalls(tool_calls, k + 1, new_messages, now)

\* lines 106-122
call_tool(msgs, now) ==
    LET last_msg == msgs[Len(msgs)] IN
    IF ~HasToolCalls(last_msg) THEN Ok(msgs)
    ELSE AnswerToolCalls(last_msg.tool_calls, 1, msgs, now)

\* the AI messages in the history
RECURSIVE LlmSteps(_, _)
LlmSteps(msgs, i) ==
    IF i > Len(msgs) THEN 0
    ELSE (IF msgs[i].type = "ai" THEN 1 ELSE 0) + LlmSteps(msgs, i + 1)

\* what get_genai_response returns when the graph raises (line 187)
AnalysisError == Raise("AI analysis error")

\* the llm node, lines 102-104, and the edge out of it
CallLlm ==
    /\ node = "llm"
    /\ \E response \in Responses(Len(messages) + 1) :
          /\ LlmSteps(messages, 1) + 1 < MaxLlmSteps \/ response.tool_calls = <<>>
          /\ messages' = messages \o <<response>>
    /\ node' = should_continue(messages')
    /\ result' = IF node' = "END" THEN Ok(messages'[Len(messages')].content) ELSE result
    /\ UNCHANGED <<catalogVars, call, pc, formVars>>

\* llm_with_tools.invoke raises: the run is given up
LlmRaises ==
    /\ node = "llm"
    /\ node' = "error"
    /\ result' = AnalysisError
    /\ UNCHANGED <<catalogVars, call, pc, formVars, messages>>

\* the tool node, lines 106-122, and the edge back to llm (line 136)
CallTool ==
    /\ node = "tool"
    /\ call_tool(messages, Now(current_date)).ok
    /\ messages' = call_tool(messages, Now(current_date)).val
    /\ node' = "llm"
    /\ UNCHANGED <<catalogVars, scoreVars, pc, formVars>>

\* calculate_coupon_payout.invoke raises in the tool node: the run is given up
ToolRaises ==
    /\ node = "tool"
    /\ ~call_tool(messages, Now(current_date)).ok
    /\ node' = "error"
    /\ result' = AnalysisError
    /\ UNCHANGED <<catalogVars, call, pc, formVars, messages>>

\* graph.invoke({"messages": messages}) entered at the llm node
InitGraph ==
    /\ bond_details = <<>>
    /\ current_date = GraphDate
    /\ active_bonds = Unset
    /\ user_preferences = NoPrefs
    /\ recommendations = Unset
    /\ reranked = Unset
    /\ call = NoCall
    /\ result = Unset
    /\ pc = "graph"
    /\ FormIdle
    /\ messages = <<SystemMessage(T_Advisor), HumanMessage(T_Prompt)>>
    /\ node = "llm"

NextGraph == CallLlm \/ LlmRaises \/ CallTool \/ ToolRaises

\* the tool node returns or raises: the run does not stay in it
ToolNodeLeaves == node = "tool" /\ node' \in {"llm", "error"}

\* the graph runs the node that is next; a call of the model returns or
\* raises, and so does the tool node
SpecGraph ==
    InitGraph /\ [][NextGraph]_vars /\ WF_vars(CallLlm \/ LlmRaises) /\ WF_node(ToolNodeLeaves)

(***************************************************************************)
(* Claims about the narrative graph                                        *)
(***************************************************************************)
GraphRunning == node \in {"llm", "tool"}
Newest(msgs) == msgs[Len(msgs)]
CarriesToolCalls(msg) == msg.type = "ai" /\ Len(msg.tool_calls) > 0

\* C22 as stated: the run starts at the llm node; after each llm step the
\* tool node is next if and only if the newest message carries a tool call,
\* otherwise the run ends; every tool step is followed by an llm step; so the
\* run ends only right after an llm step whose answer has no tool calls, and
\* it ends eventually.
C22_EndsOnlyAfterPlainAnswer ==
    /\ node = "llm"
    /\ [][node = "llm" =>
             IF CarriesToolCalls(Newest(messages')) THEN node' = "tool"
             ELSE ~GraphRunning']_vars
    /\ [][node = "tool" => node' = "llm"]_vars
    /\ [][(GraphRunning /\ ~GraphRunning') =>
             /\ node = "llm"
             /\ Len(messages') = Len(messages) + 1
             /\ Newest(messages').type = "ai"
             /\ Newest(messages').tool_calls = <<>>]_vars
    /\ <>(~GraphRunning)

\* C22: the run starts at the llm node; an llm step that returns is followed
\* by the tool node if and only if the newest message carries a tool call and
\* otherwise ends the run; a tool step that returns is followed by an llm
\* step; a step in which the model or the payout tool raises ends the run
\* with an error and leaves the messages as they were. So the run ends
\* either right after an llm step whose answer has no tool calls or by an
\* exception in an llm or tool step, and it ends eventually.
C22_EndsAfterPlainAnswerOrException ==
    /\ node = "llm"
    /\ [][(node = "llm" /\ node' # "error") =>
             /\ Len(messages') = Len(messages) + 1
             /\ IF CarriesToolCalls(Newest(messages')) THEN node' = "tool"
                ELSE node' = "END"]_vars
    /\ [][(node = "tool" /\ node' # "error") => node' = "llm"]_vars
    /\ [][node' = "error" =>
             /\ GraphRunning
             /\ messages' = messages
             /\ result' = AnalysisError]_vars
    /\ [][(GraphRunning /\ node' = "END") =>
             /\ node = "llm"
             /\ Newest(messages').type = "ai"
             /\ Newest(messages').tool_calls = <<>>
             /\ result' = Ok(Newest(messages').content)]_vars
    /\ [][~GraphRunning => node' = node]_vars
    /\ <>(~GraphRunning)

\* a run that asked for the payout tool once, had its answer and ended on the
\* second answer of the model
C22_Witness ==
    /\ node = "END"
    /\ Len(messages) = 5
    /\ CarriesToolCalls(messages[3])
    /\ messages[4].type = "tool"
    /\ messages[5] = AIMessage(T_Answer, <<>>)
    /\ result = Ok(T_Answer)

\* a run given up in the tool node: the model asked for the payout tool with
\* the frequency "semin annual"
C22_AbortedInTool ==
    /\ node = "error"
    /\ Len(messages) = 3
    /\ Len(messages[3].tool_calls) = 1
    /\ messages[3].tool_calls[1].args.payout_frequency = T_semin_annual
    /\ result = AnalysisError

\* the messages a step added
Appended == SubSeq(messages', Len(messages) + 1, Len(messages'))
KeepsHistory == Len(messages') >= Len(messages) /\ SubSeq(messages', 1, Len(messages)) = messages

\* the tool calls named calculate_coupon_payout among those of a message, in order
PayoutCalls(msg) == SelectSeq(msg.tool_calls, LAMBDA c : c.name = T_ToolName)

\* one ToolMessage for each payout call of the newest message, in call order,
\* with the id of its call, and nothing else
AnswersPayoutCalls ==
    /\ Len(Appended) = Len(PayoutCalls(Newest(messages)))
    /\ \A k \in 1..Len(Appended) :
          /\ Appended[k].type = "tool"
          /\ Appended[k].tool_call_id = PayoutCalls(Newest(messages))[k].id

\* C23 as stated: every llm or tool step keeps all earlier messages as a
\* prefix; one tool step appends, in call order, exactly one ToolMessage for
\* each tool call named calculate_coupon_payout in the newest message, with
\* the id of that call, and nothing for a tool call of another name.
C23_ToolStepAnswersPayoutCalls ==
    /\ [][KeepsHistory]_vars
    /\ [][node = "tool" => AnswersPayoutCalls]_vars

\* C23: every llm or tool step keeps all earlier messages as a prefix; an
\* llm step that returns appends the one answer of the model; a tool step
\* that returns appends, in call order, exactly one ToolMessage for each tool
\* call named calculate_coupon_payout in the newest message, with the id of
\* that call, and nothing for a tool call of another name; a tool step in
\* which one of those calls raises appends nothing, not even for the calls
\* before it.
C23_ReturningToolStepAnswersPayoutCalls ==
    /\ [][KeepsHistory]_vars
    /\ [][(node = "llm" /\ node' # "error") =>
             Len(Appended) = 1 /\ Appended[1].type = "ai"]_vars
    /\ [][(node = "tool" /\ node' = "llm") => AnswersPayoutCalls]_vars
    /\ [][node' = "error" => messages' = messages]_vars

\* the model asked for another tool and then for the payout tool: the tool
\* step added one ToolMessage, for the second call
C23_Witness ==
    /\ node = "llm"
    /\ Len(messages) = 4
    /\ Len(messages[3].tool_calls) = 2
    /\ messages[3].tool_calls[1].name = T_OtherTool
    /\ messages[3].tool_calls[2].name = T_ToolName
    /\ messages[4].type = "tool"
    /\ messages[4].tool_call_id = messages[3].tool_calls[2].id
    /\ messages[4].content.total_payments = 4

====
